---- MODULE Spec2Model ----
(***************************************************************************)
(* Model of the position-trading scanner (src/data/kimi_scanner.py) and    *)
(* of the parquet store it reads (src/data/ohlcv_fetcher.py).              *)
(*                                                                         *)
(* Numbers.  The program computes in IEEE-754 doubles; the model computes  *)
(* in exact rationals extended with NaN and the two infinities, which is   *)
(* what the doubles approximate.  A value carries a third component e,     *)
(* the side on which the computed double lies relative to the exact        *)
(* rational; it is tracked for the one column (Pct_from_52w_high) whose    *)
(* formula turns a literal threshold into a non-representable quotient,    *)
(* and is 0 (treated as exact) everywhere else.                            *)
(*                                                                         *)
(* Frames.  A stored DataFrame is represented by what the scanner reads    *)
(* of it: its column set, its length and, for every rolling window the     *)
(* code evaluates on the last row, the content of that window (its sum or  *)
(* its maximum).  Prices are multiples of 1/1024 of a currency unit, which *)
(* are doubles, so that the stored prices carry no rounding of their own. *)
(***************************************************************************)
EXTENDS Integers, Sequences, FiniteSets, TLC

\* ------------------------------------------------------------------------
\* Arithmetic on values (numpy.float64 semantics over exact rationals)
\* ------------------------------------------------------------------------

Abs(k) == IF k < 0 THEN 0 - k ELSE k

Sgn(k) == IF k > 0 THEN 1 ELSE IF k < 0 THEN 0 - 1 ELSE 0

Min(a, b) == IF a < b THEN a ELSE b

RECURSIVE GCD(_, _)
GCD(a, b) == IF b = 0 THEN a ELSE GCD(b, a % b)

RECURSIVE Pow2(_)
Pow2(k) == IF k <= 0 THEN 1 ELSE 2 * Pow2(k - 1)

\* numpy.nan
NaN == [nan |-> TRUE, n |-> 0, d |-> 1, e |-> 0]

\* the double nearest to n/d (d > 0), kept as the reduced fraction
Rat(n, d) ==
    LET g == GCD(Abs(n), d)
    IN  [nan |-> FALSE, n |-> n \div g, d |-> d \div g, e |-> 0]

Num(k) == Rat(k, 1)

\* +inf and -inf: denominator 0
Inf(s) == [nan |-> FALSE, n |-> s, d |-> 0, e |-> 0]

IsNaN(x) == x.nan

IsInf(x) == ~x.nan /\ x.d = 0

IsZero(x) == ~x.nan /\ x.d # 0 /\ x.n = 0

Neg(x) == IF x.nan THEN NaN ELSE [x EXCEPT !.n = 0 - x.n, !.e = 0 - x.e]

Add(x, y) ==
    IF x.nan \/ y.nan THEN NaN
    ELSE IF x.d = 0 /\ y.d = 0 THEN (IF x.n = y.n THEN Inf(x.n) ELSE NaN)
    ELSE IF x.d = 0 THEN Inf(x.n)
    ELSE IF y.d = 0 THEN Inf(y.n)
    ELSE LET g == GCD(x.d, y.d)
         IN  Rat(x.n * (y.d \div g) + y.n * (x.d \div g), (x.d \div g) * y.d)

Sub(x, y) == Add(x, Neg(y))

Mul(x, y) ==
    IF x.nan \/ y.nan THEN NaN
    ELSE IF x.d = 0 \/ y.d = 0
         THEN (IF x.n = 0 \/ y.n = 0 THEN NaN ELSE Inf(Sgn(x.n) * Sgn(y.n)))
    ELSE LET g1 == GCD(Abs(x.n), y.d)
             g2 == GCD(Abs(y.n), x.d)
         IN  Rat((x.n \div g1) * (y.n \div g2), (x.d \div g2) * (y.d \div g1))

\* x / y: a finite non-zero value over zero is an infinity, 0/0 and inf/inf
\* are NaN, a finite value over an infinity is 0
Div(x, y) ==
    IF x.nan \/ y.nan THEN NaN
    ELSE IF y.d = 0 THEN (IF x.d = 0 THEN NaN ELSE Num(0))
    ELSE IF y.n = 0 THEN (IF x.n = 0 THEN NaN ELSE Inf(Sgn(x.n)))
    ELSE IF x.d = 0 THEN Inf(x.n * Sgn(y.n))
    ELSE Mul(x, [nan |-> FALSE, n |-> Sgn(y.n) * y.d, d |-> Abs(y.n), e |-> 0])

\* -1, 0, 1 as x is below, equal to or above y (neither is NaN)
Cmp(x, y) ==
    IF x.d = 0 \/ y.d = 0
    THEN Sgn((IF x.d = 0 THEN x.n ELSE 0) - (IF y.d = 0 THEN y.n ELSE 0))
    ELSE LET g == GCD(x.d, y.d)
             c == Sgn(x.n * (y.d \div g) - y.n * (x.d \div g))
         IN  IF c # 0 THEN c ELSE Sgn(x.e - y.e)

\* the comparison operators: every comparison with NaN is False
GT(x, y) == ~x.nan /\ ~y.nan /\ Cmp(x, y) = 1

LT(x, y) == ~x.nan /\ ~y.nan /\ Cmp(x, y) = 0 - 1

AbsV(x) == IF x.nan \/ x.n >= 0 THEN x ELSE Neg(x)

\* round(x, ndigits) of a numpy.float64: scale, round half to even, unscale
\* (NaN and the infinities are returned unchanged); a halfway case is
\* decided by the side the double lies on when that is known
Round(x, ndigits) ==
    IF x.nan \/ x.d = 0 THEN x
    ELSE LET s  == IF ndigits = 2 THEN 100 ELSE IF ndigits = 1 THEN 10 ELSE 1
             w  == x.n \div x.d
             f  == (x.n - w * x.d) * s
             q  == w * s + (f \div x.d)
             r  == f - (f \div x.d) * x.d
             up == \/ 2 * r > x.d
                   \/ /\ 2 * r = x.d
                      /\ IF x.e # 0 THEN x.e > 0 ELSE q % 2 = 1
         IN  Rat(IF up THEN q + 1 ELSE q, s)

\* ------------------------------------------------------------------------
\* pandas primitives on the last row of a frame
\* ------------------------------------------------------------------------

\* a price column value: m/1024 of a currency unit (exactly a double)
Price(m) == Rat(m, 1024)

\* Series.rolling(window).mean() on the last row: NaN until the window is
\* full, else the window sum over the window length
rolling_mean(sum, window, len) ==
    IF len < window THEN NaN ELSE Div(sum, Num(window))

\* a variant of rolling_max: the maximum of the bars there are when the
\* window is not full (min_periods=1)
rolling_max_partial(max, window, len) == max

\* Series.rolling(window).max() on the last row
rolling_max(max, window, len) ==
    IF len < window THEN NaN ELSE max

\* Series.pct_change(periods) on the last row: NaN when there is no row
\* `periods` bars back
pct_change(cur, prev, periods, len) ==
    IF len <= periods THEN NaN ELSE Sub(Div(cur, prev), Num(1))

\* Series.mean() of `cnt` non-NaN values adding up to `sum` (NaN values are
\* skipped; the mean of no value is NaN)
mean_skipna(sum, cnt) ==
    IF cnt = 0 THEN NaN ELSE Div(sum, Num(cnt))

\* floor(log2(n / d)) for n, d > 0
RECURSIVE Log2Floor(_, _)
Log2Floor(n, d) ==
    IF n < d THEN Log2Floor(2 * n, d) - 1
    ELSE IF n >= 2 * d THEN Log2Floor(n, 2 * d) + 1
    ELSE 0

\* binary long division of a / h (h <= a < 2h): the remainder left after the
\* 53 significant bits of a double, with the last bit produced
RECURSIVE LongDiv(_, _, _, _)
LongDiv(rem, h, bits, last) ==
    IF bits = 0 THEN <<rem, last>>
    ELSE IF 2 * rem >= h THEN LongDiv(2 * rem - h, h, bits - 1, 1)
    ELSE LongDiv(2 * rem, h, bits - 1, 0)

\* the side on which the double (close / high - 1) * 100 lies relative to
\* the exact value, for h/2 <= c <= h: close / high is rounded to 53 bits
\* (round to nearest, ties to even), subtracting 1 is then exact, and the
\* product by 100 keeps the sign of the division's error whenever that
\* error, times 100, exceeds half a unit in the last place of the result
PctResidue(c, h) ==
    IF c = h THEN 0
    ELSE LET r    == LongDiv(2 * c - h, h, 52, 1)
             rem  == r[1]
             dir  == IF rem = 0 THEN 0
                     ELSE IF 2 * rem < h THEN 0 - 1
                     ELSE IF 2 * rem > h THEN 1
                     ELSE IF r[2] = 1 THEN 1 ELSE 0 - 1
             err  == IF dir = 1 THEN h - rem ELSE rem
             lE   == Log2Floor(100 * (h - c), h)
         IN  IF dir # 0 /\ 100 * err * Pow2(0 - lE) > h * Pow2(lE)
             THEN dir ELSE 0

\* ------------------------------------------------------------------------
\* KimiScanner.calculate_indicators
\* ------------------------------------------------------------------------

\* Python's None
None == [none |-> TRUE]

\* an exception leaving the method
Raised == [raised |-> TRUE]

RequiredColumns == {"close", "volume", "high", "low"}

\* The indicator columns on the last row of the copy, with what the
\* strategies read of the earlier rows (SMA_200.iloc[-63], the tails of
\* close and Vol_Ratio).  A missing column raises KeyError.  The columns no
\* strategy reads (EMA_20, EMA_50, SMA_10w, Vol_SMA_50, 52w_Low) are left
\* out; the DX series (lines 74-89) enters through its last window.  The
\* column 52w_High (High_52w here) is the maximum close of the last 252 bars.
calculate_indicators(df) ==
    IF ~(RequiredColumns \subseteq df.columns) THEN Raised
    ELSE
    LET close      == Price(df.close)
        SMA_50     == rolling_mean(Price(df.sum50), 50, df.len)
        SMA_150    == rolling_mean(Price(df.sum150), 150, df.len)
        SMA_200    == rolling_mean(Price(df.sum200), 200, df.len)
        gain       == rolling_mean(Price(df.gain14), 14, df.len)
        loss       == rolling_mean(Price(df.loss14), 14, df.len)
        rs         == Div(gain, loss)
        Vol_SMA_20 == rolling_mean(Num(df.volume20), 20, df.len)
        Vol_Ratio  == Div(Num(df.volume), Vol_SMA_20)
        dx_sum     == IF df.dxNaN THEN NaN ELSE Rat(df.dxSum, df.dxDen)
        High_52w   == rolling_max(Price(df.max252), 252, df.len)
        pct        == Mul(Sub(Div(close, High_52w), Num(1)), Num(100))
    IN  [raised      |-> FALSE,
         len         |-> df.len,
         close       |-> close,
         close_tail  |-> [max |-> Price(df.max20), min |-> Price(df.min20),
                          sum |-> Price(df.sum20), cnt |-> Min(20, df.len)],
         SMA_50      |-> SMA_50,
         SMA_150     |-> SMA_150,
         SMA_200     |-> SMA_200,
         SMA_200_63  |-> rolling_mean(Price(df.sum200_63), 200, df.len - 62),
         SMA_30w     |-> SMA_150,
         SMA_40w     |-> SMA_200,
         RSI         |-> Sub(Num(100), Div(Num(100), Add(Num(1), rs))),
         Vol_SMA_20  |-> Vol_SMA_20,
         Vol_Ratio   |-> Vol_Ratio,
         Vol_Ratio_tail |->
             [sum |-> IF Vol_Ratio.nan THEN Rat(df.ratioSum, df.ratioDen)
                      ELSE Add(Rat(df.ratioSum, df.ratioDen), Vol_Ratio),
              cnt |-> IF Vol_Ratio.nan THEN df.ratioCnt ELSE df.ratioCnt + 1],
         ADX         |-> rolling_mean(dx_sum, 14, df.len - 13),
         Returns_3m  |-> Mul(pct_change(close, Price(df.close_63), 63, df.len),
                             Num(100)),
         Returns_6m  |-> Mul(pct_change(close, Price(df.close_126), 126, df.len),
                             Num(100)),
         High_52w    |-> High_52w,
         Pct_from_52w_high |->
             IF pct.nan THEN NaN
             ELSE [pct EXCEPT !.e = PctResidue(df.close, df.max252)]]

\* ------------------------------------------------------------------------
\* KimiScanner.detect_stage
\* ------------------------------------------------------------------------

\* a variant of detect_stage: a close on the 30-week average counts as
\* below it
detect_stage_on_average_is_below(df) ==
    LET price   == df.close
        sma_30w == df.SMA_30w
        sma_40w == df.SMA_40w
        sma_50  == df.SMA_50
        sma_150 == df.SMA_150
        sma_200 == df.SMA_200
        below   == LT(price, sma_30w) \/ price = sma_30w
        is_stage_2 == /\ GT(price, sma_30w)
                      /\ GT(price, sma_40w)
                      /\ GT(sma_30w, sma_40w)
                      /\ GT(price, sma_50)
                      /\ GT(price, sma_150)
                      /\ GT(price, sma_200)
                      /\ GT(sma_50, sma_200)
    IN  [is_stage_2 |-> is_stage_2,
         stage |-> IF is_stage_2 THEN 2
                   ELSE IF below /\ GT(price, sma_40w) THEN 1
                   ELSE IF below /\ LT(price, sma_40w) THEN 4
                   ELSE 3]

detect_stage(df) ==
    LET price   == df.close
        sma_30w == df.SMA_30w
        sma_40w == df.SMA_40w
        sma_50  == df.SMA_50
        sma_150 == df.SMA_150
        sma_200 == df.SMA_200
        is_stage_2 == /\ GT(price, sma_30w)
                      /\ GT(price, sma_40w)
                      /\ GT(sma_30w, sma_40w)
                      /\ GT(price, sma_50)
                      /\ GT(price, sma_150)
                      /\ GT(price, sma_200)
                      /\ GT(sma_50, sma_200)
    IN  [is_stage_2 |-> is_stage_2,
         stage |-> IF is_stage_2 THEN 2
                   ELSE IF LT(price, sma_30w) /\ GT(price, sma_40w) THEN 1
                   ELSE IF LT(price, sma_30w) /\ LT(price, sma_40w) THEN 4
                   ELSE 3]

\* ------------------------------------------------------------------------
\* The three strategies: each returns a signal dict or None
\* ------------------------------------------------------------------------


\* f"{x:.1%}": the value as a percentage with one decimal
format_pct1(x) == [percent |-> Round(Mul(x, Num(100)), 1)]

\* a variant of stage2_breakout_rules: the stage of the symbol is reported
\* but not required
stage2_breakout_rules_any_stage(df) ==
    LET current       == df
        vol_confirmed == GT(current.Vol_Ratio, Num(2))
        near_high     == GT(current.Pct_from_52w_high, Num(0 - 10))
        adx_strong    == GT(current.ADX, Num(25))
        rsi_ok        == LT(current.RSI, Num(70))
    IN  vol_confirmed /\ near_high /\ adx_strong /\ rsi_ok

\* the condition of the `if` at line 168
stage2_breakout_rules(df) ==
    LET current       == df
        vol_confirmed == GT(current.Vol_Ratio, Num(2))
        near_high     == GT(current.Pct_from_52w_high, Num(0 - 10))
        adx_strong    == GT(current.ADX, Num(25))
        stage_info    == detect_stage(df)
        rsi_ok        == LT(current.RSI, Num(70))
    IN  stage_info.is_stage_2 /\ vol_confirmed /\ near_high /\ adx_strong
        /\ rsi_ok

\* a variant of strategy_stage2_breakout: the confidence threshold of
\* CANSLIM (2.5) in place of 3
strategy_stage2_breakout_high_25(df, symbol) ==
    LET current     == df
        stage_info  == detect_stage(df)
        entry_price == current.close
        stop_loss   == Mul(current.SMA_30w, Rat(95, 100))
        target      == Mul(entry_price, Rat(140, 100))
        risk        == Div(Sub(entry_price, stop_loss), entry_price)
        reward      == Rat(40, 100)
    IN  IF stage2_breakout_rules(df)
        THEN [symbol        |-> symbol,
              strategy      |-> "stage2_breakout",
              signal        |-> "BUY",
              entry         |-> Round(entry_price, 2),
              stop          |-> Round(stop_loss, 2),
              target        |-> Round(target, 2),
              risk_reward   |-> IF GT(risk, Num(0))
                                THEN Round(Div(reward, risk), 2) ELSE Num(0),
              rsi           |-> Round(current.RSI, 1),
              adx           |-> Round(current.ADX, 1),
              vol_ratio     |-> Round(current.Vol_Ratio, 1),
              pct_from_high |-> Round(current.Pct_from_52w_high, 1),
              stage         |-> stage_info.stage,
              confidence    |-> IF GT(current.Vol_Ratio, Rat(25, 10))
                                THEN "HIGH" ELSE "MEDIUM"]
        ELSE None

strategy_stage2_breakout(df, symbol) ==
    LET current     == df
        stage_info  == detect_stage(df)
        entry_price == current.close
        stop_loss   == Mul(current.SMA_30w, Rat(95, 100))
        target      == Mul(entry_price, Rat(140, 100))
        risk        == Div(Sub(entry_price, stop_loss), entry_price)
        reward      == Rat(40, 100)
    IN  IF stage2_breakout_rules(df)
        THEN [symbol        |-> symbol,
              strategy      |-> "stage2_breakout",
              signal        |-> "BUY",
              entry         |-> Round(entry_price, 2),
              stop          |-> Round(stop_loss, 2),
              target        |-> Round(target, 2),
              risk_reward   |-> IF GT(risk, Num(0))
                                THEN Round(Div(reward, risk), 2) ELSE Num(0),
              rsi           |-> Round(current.RSI, 1),
              adx           |-> Round(current.ADX, 1),
              vol_ratio     |-> Round(current.Vol_Ratio, 1),
              pct_from_high |-> Round(current.Pct_from_52w_high, 1),
              stage         |-> stage_info.stage,
              confidence    |-> IF GT(current.Vol_Ratio, Num(3))
                                THEN "HIGH" ELSE "MEDIUM"]
        ELSE None

\* a variant of canslim_rules: the pivot needs the tight range and the
\* breakout together (`and` in place of `or`)
canslim_rules_and(df) ==
    LET current        == df
        new_highs      == GT(current.Pct_from_52w_high, Num(0 - 5))
        volume_trend   == GT(mean_skipna(df.Vol_Ratio_tail.sum,
                                         df.Vol_Ratio_tail.cnt), Rat(12, 10))
        price_momentum == GT(current.Returns_3m, Num(15))
        recent_high    == df.close_tail.max
        recent_low     == df.close_tail.min
        tight_range    == LT(Div(Sub(recent_high, recent_low),
                                 mean_skipna(df.close_tail.sum,
                                             df.close_tail.cnt)), Rat(8, 100))
        breakout       == GT(current.close, Mul(recent_high, Rat(98, 100)))
        rsi_ok         == LT(current.RSI, Num(65))
    IN  new_highs /\ volume_trend /\ price_momentum
        /\ (tight_range /\ breakout) /\ rsi_ok

\* the condition of the `if` at line 215
canslim_rules(df) ==
    LET current        == df
        new_highs      == GT(current.Pct_from_52w_high, Num(0 - 5))
        volume_trend   == GT(mean_skipna(df.Vol_Ratio_tail.sum,
                                         df.Vol_Ratio_tail.cnt), Rat(12, 10))
        price_momentum == GT(current.Returns_3m, Num(15))
        recent_high    == df.close_tail.max
        recent_low     == df.close_tail.min
        tight_range    == LT(Div(Sub(recent_high, recent_low),
                                 mean_skipna(df.close_tail.sum,
                                             df.close_tail.cnt)), Rat(8, 100))
        breakout       == GT(current.close, Mul(recent_high, Rat(98, 100)))
        rsi_ok         == LT(current.RSI, Num(65))
    IN  new_highs /\ volume_trend /\ price_momentum
        /\ (tight_range \/ breakout) /\ rsi_ok

\* a variant of strategy_canslim: the target multiplier of Stage-2 Breakout
\* (1.40) in place of 1.35
strategy_canslim_target_140(df, symbol) ==
    LET current == df
        entry   == current.close
        stop    == Mul(current.SMA_50, Rat(93, 100))
        target  == Mul(entry, Rat(140, 100))
    IN  IF canslim_rules(df)
        THEN [symbol        |-> symbol,
              strategy      |-> "canslim",
              signal        |-> "BUY",
              entry         |-> Round(entry, 2),
              stop          |-> Round(stop, 2),
              target        |-> Round(target, 2),
              returns_3m    |-> Round(current.Returns_3m, 1),
              rsi           |-> Round(current.RSI, 1),
              pct_from_high |-> Round(current.Pct_from_52w_high, 1),
              vol_ratio     |-> Round(current.Vol_Ratio, 1),
              confidence    |-> IF GT(current.Vol_Ratio, Rat(25, 10))
                                THEN "HIGH" ELSE "MEDIUM"]
        ELSE None

strategy_canslim(df, symbol) ==
    LET current == df
        entry   == current.close
        stop    == Mul(current.SMA_50, Rat(93, 100))
        target  == Mul(entry, Rat(135, 100))
    IN  IF canslim_rules(df)
        THEN [symbol        |-> symbol,
              strategy      |-> "canslim",
              signal        |-> "BUY",
              entry         |-> Round(entry, 2),
              stop          |-> Round(stop, 2),
              target        |-> Round(target, 2),
              returns_3m    |-> Round(current.Returns_3m, 1),
              rsi           |-> Round(current.RSI, 1),
              pct_from_high |-> Round(current.Pct_from_52w_high, 1),
              vol_ratio     |-> Round(current.Vol_Ratio, 1),
              confidence    |-> IF GT(current.Vol_Ratio, Rat(25, 10))
                                THEN "HIGH" ELSE "MEDIUM"]
        ELSE None

\* a variant of monthly_trend_rules: the momentum gate reads the 3-month
\* return column in place of the 6-month one
monthly_trend_rules_3m(df) ==
    IF df.len < 252 THEN FALSE
    ELSE
    LET current      == df
        ma_aligned   == /\ GT(current.close, current.SMA_50)
                        /\ GT(current.SMA_50, current.SMA_200)
                        /\ GT(df.SMA_200, df.SMA_200_63)
        momentum     == GT(current.Returns_3m, Num(25))
        near_support == LT(AbsV(Sub(Div(current.close, current.SMA_50),
                                    Num(1))), Rat(3, 100))
        adx_ok       == GT(current.ADX, Num(20))
    IN  ma_aligned /\ momentum /\ near_support /\ adx_ok

\* the early return at line 240 and the condition of the `if` at line 260
monthly_trend_rules(df) ==
    IF df.len < 252 THEN FALSE
    ELSE
    LET current      == df
        ma_aligned   == /\ GT(current.close, current.SMA_50)
                        /\ GT(current.SMA_50, current.SMA_200)
                        /\ GT(df.SMA_200, df.SMA_200_63)
        momentum     == GT(current.Returns_6m, Num(25))
        near_support == LT(AbsV(Sub(Div(current.close, current.SMA_50),
                                    Num(1))), Rat(3, 100))
        adx_ok       == GT(current.ADX, Num(20))
    IN  ma_aligned /\ momentum /\ near_support /\ adx_ok

strategy_monthly_trend(df, symbol) ==
    LET current  == df
        entry    == current.close
        stop     == current.SMA_200
        target   == Mul(entry, Rat(160, 100))
        risk_pct == Div(Sub(entry, stop), entry)
    IN  IF monthly_trend_rules(df)
        THEN [symbol     |-> symbol,
              strategy   |-> "monthly_trend",
              signal     |-> "BUY",
              entry      |-> Round(entry, 2),
              stop       |-> Round(stop, 2),
              target     |-> Round(target, 2),
              risk_pct   |-> format_pct1(risk_pct),
              returns_6m |-> Round(current.Returns_6m, 1),
              rsi        |-> Round(current.RSI, 1),
              adx        |-> Round(current.ADX, 1),
              confidence |-> "MEDIUM"]
        ELSE None

\* ------------------------------------------------------------------------
\* OHLCVStorage (the parquet directory) and KimiScanner.load_ohlcv
\* ------------------------------------------------------------------------

\* a log record of loguru
Log(level, symbol, msg) == [level |-> level, symbol |-> symbol, msg |-> msg]

\* OHLCVStorage.load: the frame of an existing, readable file; a missing
\* file gives None, a read error is caught and logged and gives None
storage_load(files, symbol) ==
    LET f == files[symbol]
    IN  IF f.exists /\ ~f.corrupt THEN [ret |-> f.df, log |-> <<>>]
        ELSE IF f.exists
        THEN [ret |-> None, log |-> <<Log("ERROR", symbol, "Error loading")>>]
        ELSE [ret |-> None, log |-> <<>>]

\* OHLCVStorage.list_symbols: the stems of the stored files (in the order
\* the directory listing happens to give)
list_symbols(files) == {sym \in DOMAIN files : files[sym].exists}

\* a variant of load_ohlcv: more than 200 bars are asked for (`>` in place
\* of `>=`)
load_ohlcv_over_200(files, symbol) ==
    LET r  == storage_load(files, symbol)
        df == r.ret
    IN  IF df # None /\ df.len > 200 THEN [ret |-> df, log |-> r.log]
        ELSE [ret |-> None,
              log |-> Append(r.log, Log("WARNING", symbol, "Insufficient data"))]

\* KimiScanner.load_ohlcv: the stored frame when it has at least 200 bars;
\* otherwise a warning is logged and None returned
load_ohlcv(files, symbol) ==
    LET r  == storage_load(files, symbol)
        df == r.ret
    IN  IF df # None /\ df.len >= 200 THEN [ret |-> df, log |-> r.log]
        ELSE [ret |-> None,
              log |-> Append(r.log, Log("WARNING", symbol, "Insufficient data"))]

\* ------------------------------------------------------------------------
\* KimiScanner.scan_symbol
\* ------------------------------------------------------------------------

\* signals.append(s) under `if s:`
append_if(signals, s) == IF s # None THEN Append(signals, s) ELSE signals

\* a variant of scan_symbol: the strategies are tried in turn and the first
\* one that fires ends the scan (`elif` in place of `if`)
scan_symbol_first_match(files, symbol) ==
    LET l == load_ohlcv(files, symbol)
    IN  IF l.ret = None
        THEN [raised |-> FALSE, signals |-> <<>>, calls |-> <<>>, log |-> l.log]
        ELSE
        LET df == calculate_indicators(l.ret)
        IN  IF df.raised
            THEN [raised |-> TRUE, signals |-> <<>>, calls |-> <<>>,
                  log |-> l.log]
            ELSE
            LET s1 == strategy_stage2_breakout(df, symbol)
                s2 == strategy_canslim(df, symbol)
                s3 == strategy_monthly_trend(df, symbol)
            IN  [raised  |-> FALSE,
                 signals |-> IF s1 # None THEN <<s1>>
                             ELSE IF s2 # None THEN <<s2>>
                             ELSE append_if(<<>>, s3),
                 calls   |-> <<"stage2_breakout", "canslim", "monthly_trend">>,
                 log     |-> l.log]

\* a variant of scan_symbol: CANSLIM is evaluated only on a symbol that
\* Stage-2 Breakout has signalled
scan_symbol_canslim_after_stage2(files, symbol) ==
    LET l == load_ohlcv(files, symbol)
    IN  IF l.ret = None
        THEN [raised |-> FALSE, signals |-> <<>>, calls |-> <<>>, log |-> l.log]
        ELSE
        LET df == calculate_indicators(l.ret)
        IN  IF df.raised
            THEN [raised |-> TRUE, signals |-> <<>>, calls |-> <<>>,
                  log |-> l.log]
            ELSE
            LET s1 == strategy_stage2_breakout(df, symbol)
                s2 == IF s1 # None THEN strategy_canslim(df, symbol) ELSE None
                s3 == strategy_monthly_trend(df, symbol)
            IN  [raised  |-> FALSE,
                 signals |-> append_if(append_if(append_if(<<>>, s1), s2), s3),
                 calls   |-> <<"stage2_breakout", "canslim", "monthly_trend">>,
                 log     |-> l.log]

\* The returned list, or raised = TRUE when an exception leaves the method;
\* calls lists the strategies that were evaluated, in order.
scan_symbol(files, symbol) ==
    LET l == load_ohlcv(files, symbol)
    IN  IF l.ret = None
        THEN [raised |-> FALSE, signals |-> <<>>, calls |-> <<>>, log |-> l.log]
        ELSE
        LET df == calculate_indicators(l.ret)
        IN  IF df.raised
            THEN [raised |-> TRUE, signals |-> <<>>, calls |-> <<>>,
                  log |-> l.log]
            ELSE
            LET s1 == strategy_stage2_breakout(df, symbol)
                s2 == strategy_canslim(df, symbol)
                s3 == strategy_monthly_trend(df, symbol)
            IN  [raised  |-> FALSE,
                 signals |-> append_if(append_if(append_if(<<>>, s1), s2), s3),
                 calls   |-> <<"stage2_breakout", "canslim", "monthly_trend">>,
                 log     |-> l.log]

\* ------------------------------------------------------------------------
\* The final sort of scan_all
\* ------------------------------------------------------------------------

\* str < str: lexicographic order of the code points
RECURSIVE StrLess(_, _)
StrLess(a, b) ==
    IF b = <<>> THEN FALSE
    ELSE IF a = <<>> THEN TRUE
    ELSE IF Head(a) # Head(b) THEN Head(a) < Head(b)
    ELSE StrLess(Tail(a), Tail(b))

\* a variant of confidence_order: the table is keyed in lower case, so every
\* lookup of an emitted confidence falls back to the default rank
confidence_order_lower_case(x) ==
    LET c == IF "confidence" \in DOMAIN x THEN x.confidence ELSE "LOW"
    IN  IF c = "high" THEN 0 ELSE IF c = "medium" THEN 1 ELSE 2

\* confidence_order.get(x.get('confidence', 'LOW'), 2)
confidence_order(x) ==
    LET c == IF "confidence" \in DOMAIN x THEN x.confidence ELSE "LOW"
    IN  IF c = "HIGH" THEN 0 ELSE IF c = "MEDIUM" THEN 1 ELSE 2

\* a variant of KeyLess: the key is the rank alone
KeyLess_rank_only(a, b) == confidence_order(a) < confidence_order(b)

\* the sort key (rank, symbol) of a is strictly below that of b
KeyLess(a, b) ==
    \/ confidence_order(a) < confidence_order(b)
    \/ /\ confidence_order(a) = confidence_order(b)
       /\ StrLess(a.symbol, b.symbol)

\* insert x behind every element whose key is not above x's (stability)
RECURSIVE InsertSorted(_, _)
InsertSorted(sorted, x) ==
    IF sorted = <<>> THEN <<x>>
    ELSE IF KeyLess(x, Head(sorted)) THEN <<x>> \o sorted
    ELSE <<Head(sorted)>> \o InsertSorted(Tail(sorted), x)

\* list.sort(key = ...): a stable sort by the key
RECURSIVE SortSignals(_)
SortSignals(l) ==
    IF l = <<>> THEN <<>>
    ELSE InsertSorted(SortSignals(SubSeq(l, 1, Len(l) - 1)), l[Len(l)])

\* ------------------------------------------------------------------------
\* Inputs: symbols, stored frames, the clock
\* ------------------------------------------------------------------------

\* the symbol names "A", "AB" and "B" as code points
SymA == <<65>>

SymAB == <<65, 66>>

SymB == <<66>>

Symbols == {SymA, SymAB, SymB}

\* longest symbols list handed to scan_all
MaxUniverse == 3

OHLCV == {"open", "high", "low", "close", "volume"}

\* A frame of `len` bars whose last close is `close` and on which every gate
\* of the three strategies passes with room to spare.
BaseFrame(close, len) ==
    [columns   |-> OHLCV,
     len       |-> len,
     close     |-> close,
     sum50     |-> 50 * (close - 300),
     sum150    |-> 150 * (close - 2000),
     sum200    |-> 200 * (close - 3000),
     sum200_63 |-> 200 * (close - 3500),
     max252    |-> close,
     close_63  |-> close - 4000,
     close_126 |-> close - 6000,
     max20     |-> close,
     min20     |-> close - 400,
     sum20     |-> 20 * (close - 200),
     volume    |-> 40,
     volume20  |-> 200,
     ratioSum  |-> 2470,
     ratioDen  |-> 100,
     ratioCnt  |-> Min(19, IF len > 20 THEN len - 20 ELSE 0),
     gain14    |-> 600,
     loss14    |-> 400,
     dxSum     |-> 42000,
     dxDen     |-> 100,
     dxNaN     |-> FALSE]

\* What every series of positive prices and non-negative volumes implies for
\* the windows of its last row; the frames are also kept to a close of at
\* least half the 252-bar maximum, the range PctResidue is defined on.
WellFormed(df) ==
    /\ df.len >= 1
    /\ df.min20 > 0 /\ df.close_63 > 0 /\ df.close_126 > 0
    /\ df.min20 <= df.close /\ df.close <= df.max20
    /\ 20 * df.min20 <= df.sum20 /\ df.sum20 <= 20 * df.max20
    /\ df.max20 <= df.max252 /\ df.max252 <= 2 * df.close
    /\ df.close_63 <= df.max252 /\ df.close_126 <= df.max252
    /\ df.sum20 <= df.sum50 /\ df.sum50 <= df.sum150 /\ df.sum150 <= df.sum200
    /\ df.sum50 <= 50 * df.max252 /\ df.sum150 <= 150 * df.max252
    /\ df.sum200 <= 200 * df.max252
    /\ df.sum50 - df.sum20 <= 30 * df.max252
    /\ df.sum150 - df.sum50 <= 100 * df.max252
    /\ df.sum200 - df.sum150 <= 50 * df.max252
    /\ df.sum200_63 > 0
    /\ 0 <= df.volume /\ df.volume <= df.volume20
    /\ df.gain14 >= 0 /\ df.loss14 >= 0
    /\ df.min20 <= df.close - df.gain14 + df.loss14
    /\ df.close - df.gain14 + df.loss14 <= df.max20
    /\ df.gain14 + df.loss14 <= 14 * (df.max20 - df.min20)
    /\ 0 <= df.ratioCnt /\ df.ratioCnt <= 19 /\ df.ratioCnt + 20 <= df.len
    /\ 0 <= df.ratioSum /\ df.ratioSum <= 2000 * df.ratioCnt
    /\ 0 <= df.dxSum /\ df.dxSum < 140000

\* --- frames around the gates of Stage-2 Breakout (close 18000/1024)
Stage2Frames ==
    { [BaseFrame(18000, 300) EXCEPT
          !.sum50 = 50 * f[1], !.sum150 = 150 * f[2], !.sum200 = 200 * f[3],
          !.volume = f[4], !.max252 = f[5], !.dxSum = f[6][1],
          !.dxNaN = f[6][2], !.gain14 = f[7][1], !.loss14 = f[7][2]] :
      f \in {17000, 15000, 18000}
            \X {16000, 15000, 18000, 19000}
            \X {15000, 19100}
            \X {10, 20, 21, 30, 31}
            \X {18000, 19999, 20000, 20001}
            \X {<<35000, FALSE>>, <<35014, FALSE>>, <<42000, FALSE>>,
                <<0, TRUE>>}
            \X {<<700, 300>>, <<699, 301>>, <<600, 400>>, <<0, 0>>,
                <<300, 0>>} }

\* --- frames around the gates of CANSLIM (close 21413/1024)
CanslimFrames ==
    { [BaseFrame(21413, 300) EXCEPT
          !.max252 = f[1], !.ratioSum = f[2], !.volume = f[3],
          !.close_63 = f[4], !.max20 = f[5][1], !.min20 = f[5][2],
          !.sum20 = 20 * f[5][3], !.gain14 = f[6][1], !.loss14 = f[6][2]] :
      f \in {21413, 22000, 22539, 22540, 22541}
            \X {2000, 2001, 2150, 2470, 1000}
            \X {40, 25, 26}
            \X {18620, 18619, 20000}
            \X {<<21413, 21013, 21213>>, <<21850, 21013, 21400>>,
                <<21850, 20138, 21400>>, <<21850, 20139, 21400>>,
                <<21849, 19000, 20500>>}
            \X {<<650, 350>>, <<649, 351>>, <<600, 400>>, <<0, 0>>} }

\* --- frames around the gates of Monthly Trend (close 20600/1024)
MonthlyFrames ==
    { [BaseFrame(20600, f[1]) EXCEPT
          !.sum50 = 50 * f[2][1], !.sum150 = 150 * f[2][2],
          !.sum200 = 200 * f[2][3], !.max252 = f[2][4],
          !.sum200_63 = 200 * f[2][3] + f[3],
          !.close_126 = f[4], !.dxSum = f[5][1], !.dxNaN = f[5][2]] :
      f \in {199, 200, 251, 252, 261, 262, 300}
            \X {<<20000, 18600, 17600, 20600>>, <<20001, 18600, 17600, 20600>>,
                <<19000, 18600, 17600, 20600>>, <<20600, 18600, 17600, 20600>>,
                <<21000, 19000, 18000, 22000>>, <<20001, 20001, 20001, 20600>>,
                <<20001, 20200, 20300, 22000>>}
            \X {0 - 1, 0, 200000}
            \X {16480, 16479, 18000}
            \X {<<28000, FALSE>>, <<28001, FALSE>>, <<42000, FALSE>>,
                <<0, TRUE>>} }

File(df) == [exists |-> TRUE, corrupt |-> FALSE, df |-> df]

\* no parquet file for the symbol
Absent == [exists |-> FALSE, corrupt |-> FALSE, df |-> None]

\* a parquet file pandas cannot read
Corrupt == [exists |-> TRUE, corrupt |-> TRUE, df |-> None]

\* frames lacking one of the OHLCV columns
BrokenFrames ==
    { [BaseFrame(18000, 300) EXCEPT !.columns = OHLCV \ {c}] : c \in OHLCV }

\* the stored files of the single-symbol runs
SymbolFiles ==
    {File(df) : df \in {d \in Stage2Frames \cup CanslimFrames \cup MonthlyFrames :
                          WellFormed(d)}}
    \cup {File(df) : df \in BrokenFrames} \cup {Absent, Corrupt}

\* the stored files of the batch runs: all three strategies fire (HIGH, HIGH,
\* MEDIUM); all three fire with MEDIUM; too short; a missing column;
\* unreadable; no file
BatchFiles ==
    { File(BaseFrame(18000, 300)),
      File([BaseFrame(18000, 300) EXCEPT !.volume = 21]),
      File(BaseFrame(18000, 199)),
      File([BaseFrame(18000, 300) EXCEPT !.columns = OHLCV \ {"volume"}]),
      Corrupt,
      Absent }

\* datetime.now() rendered as a date and as a time
Dates == {"2026-01-01"}

Times == {"09:15:00"}

\* ------------------------------------------------------------------------
\* State
\* ------------------------------------------------------------------------

VARIABLES
    arg,          \* the DataFrame handed to a method called directly
    analyzer,     \* the TechnicalAnalyzer instance (None before __init__)
    ncalls,       \* methods called on the analyzer since its construction
    files,        \* OHLCVStorage: symbol -> parquet file
    op,           \* the method being run ("none" before any call)
    pc,           \* "idle", "loop" (inside scan_all's for), "done" (the
                  \* method returned) or "raised" (an exception left it)
    symbols,      \* scan_all: the list being scanned
    i,            \* scan_all: index of the next symbol
    all_signals,  \* scan_all: signals collected so far
    scanned,      \* scan_all: symbols scanned without an exception
    signals,      \* scan_all: what scan_symbol returned in this iteration
    calls,        \* strategy evaluations so far, as <<symbol, strategy>>
    log,          \* the records logged so far
    result        \* the value returned by the method

vars == <<arg, analyzer, ncalls, files, op, pc, symbols, i, all_signals,
          scanned, signals, calls, log, result>>

\* all lists over S of length at most n
RECURSIVE ListsUpTo(_, _)
ListsUpTo(S, n) ==
    IF n = 0 THEN {<<>>}
    ELSE LET shorter == ListsUpTo(S, n - 1)
         IN  shorter \cup {Append(l, x) : l \in shorter, x \in S}

Range(l) == {l[k] : k \in DOMAIN l}

Idle ==
    /\ op = "none" /\ pc = "idle" /\ symbols = <<>> /\ i = 1
    /\ all_signals = <<>> /\ scanned = 0 /\ signals = <<>>
    /\ calls = <<>> /\ log = <<>> /\ result = None
    /\ arg = None /\ analyzer = None /\ ncalls = 0

\* the batch runs start from any assignment of the batch files
Init == files \in [Symbols -> BatchFiles] /\ Idle

\* the single-symbol runs start from one stored file
InitSymbol ==
    /\ \E f \in SymbolFiles : files = [sym \in {SymA} |-> f]
    /\ Idle

\* ------------------------------------------------------------------------
\* KimiScanner.scan_all
\* ------------------------------------------------------------------------

\* Entry of scan_all(symbols): None is replaced by the stored symbols; an
\* empty list is reported and returned from at once.
ScanAllBegin ==
    /\ pc = "idle"
    /\ \E given \in BOOLEAN, l \in ListsUpTo(Symbols, MaxUniverse) :
          /\ given \/ (/\ Range(l) = list_symbols(files)
                       /\ Len(l) = Cardinality(list_symbols(files)))
          /\ symbols' = l
          /\ IF l = <<>>
             THEN /\ log' = Append(log, Log("ERROR", <<>>, "No symbols to scan"))
                  /\ result' = [signals |-> <<>>]
                  /\ pc' = "done"
             ELSE /\ log' = Append(log, Log("INFO", <<>>, "Scanning"))
                  /\ result' = result
                  /\ pc' = "loop"
    /\ op' = "scan_all"
    /\ i' = 1 /\ all_signals' = <<>> /\ scanned' = 0
    /\ UNCHANGED <<arg, analyzer, ncalls, files, signals, calls>>

\* a variant of ScanAllIteration: the symbol is counted before it is scanned
ScanAllIteration_counts_first ==
    /\ pc = "loop" /\ i <= Len(symbols)
    /\ \E r \in {scan_symbol(files, symbols[i])} :
       LET symbol == symbols[i]
           called == [k \in DOMAIN r.calls |-> <<symbol, r.calls[k]>>]
       IN  /\ scanned' = scanned + 1
           /\ calls' = calls \o called
           /\ IF r.raised
              THEN /\ log' = log \o r.log
                               \o <<Log("ERROR", symbol, "exception")>>
                   /\ UNCHANGED <<all_signals, signals>>
              ELSE /\ signals' = r.signals
                   /\ all_signals' = all_signals \o r.signals
                   /\ log' = log \o r.log \o
                             (IF r.signals # <<>>
                              THEN [k \in DOMAIN r.signals |->
                                       Log("INFO", symbol, r.signals[k].strategy)]
                              ELSE <<Log("DEBUG", symbol, "No signals")>>)
    /\ i' = i + 1
    /\ UNCHANGED <<arg, analyzer, ncalls, files, op, pc, symbols, result>>

\* One pass of the for loop.  The try block runs scan_symbol, extends
\* all_signals, counts the symbol and logs its signals; if scan_symbol raises,
\* the except clause logs the error and nothing else changes.
ScanAllIteration ==
    /\ pc = "loop" /\ i <= Len(symbols)
    /\ \E r \in {scan_symbol(files, symbols[i])} :
       LET symbol == symbols[i]
           called == [k \in DOMAIN r.calls |-> <<symbol, r.calls[k]>>]
       IN  IF r.raised
           THEN /\ calls' = calls \o called
                /\ log' = log \o r.log \o <<Log("ERROR", symbol, "exception")>>
                /\ UNCHANGED <<all_signals, scanned, signals>>
           ELSE /\ signals' = r.signals
                /\ all_signals' = all_signals \o r.signals
                /\ scanned' = scanned + 1
                /\ calls' = calls \o called
                /\ log' = log \o r.log \o
                          (IF r.signals # <<>>
                           THEN [k \in DOMAIN r.signals |->
                                    Log("INFO", symbol, r.signals[k].strategy)]
                           ELSE <<Log("DEBUG", symbol, "No signals")>>)
    /\ i' = i + 1
    /\ UNCHANGED <<arg, analyzer, ncalls, files, op, pc, symbols, result>>

\* After the loop: sort in place, build the result dict and return it.
ScanAllFinish ==
    /\ pc = "loop" /\ i > Len(symbols)
    /\ \E date \in Dates, time \in Times :
          LET sorted == SortSignals(all_signals)
          IN  /\ all_signals' = sorted
              /\ result' = [scan_date     |-> date,
                            scan_time     |-> time,
                            total_scanned |-> scanned,
                            total_signals |-> Len(sorted),
                            signals       |-> sorted]
    /\ log' = Append(log, Log("SUCCESS", <<>>, "Scan complete"))
    /\ pc' = "done"
    /\ UNCHANGED <<arg, analyzer, ncalls, files, op, symbols, i, scanned, signals, calls>>

Next ==
    \/ ScanAllBegin
    \/ ScanAllIteration
    \/ ScanAllFinish

Spec == Init /\ [][Next]_vars

\* ------------------------------------------------------------------------
\* scan_all over series that meet the gates of one strategy each
\* ------------------------------------------------------------------------

\* in Stage 2 on 2.1 times the average volume and an ADX of 25.01, just
\* under 10% below the 52-week high (not within the 5% of CANSLIM) and 5.9%
\* above the 50-day average (not within the 3% of Monthly Trend)
OnlyStage2 ==
    [BaseFrame(18000, 300) EXCEPT
        !.sum50 = 50 * 17000, !.sum150 = 150 * 16000, !.sum200 = 200 * 15000,
        !.volume = 21, !.max252 = 19999, !.dxSum = 35014]

\* 252 bars at the 52-week high, 24% up in three months, on an ADX of
\* exactly 20: not above the 25 of Stage-2 Breakout nor the 20 of Monthly
\* Trend
OnlyCanslim ==
    [BaseFrame(20600, 252) EXCEPT
        !.sum50 = 50 * 19000, !.sum150 = 150 * 18600, !.sum200 = 200 * 17600,
        !.close_126 = 16479, !.dxSum = 28000]

\* averages aligned and rising, 1.4% above the 50-day average and 39% up in
\* six months, on an RSI of 75: above the 70 of Stage-2 Breakout and the 65
\* of CANSLIM
OnlyMonthly ==
    [BaseFrame(21413, 300) EXCEPT
        !.ratioSum = 1000, !.volume = 25, !.close_63 = 18619,
        !.gain14 = 300, !.loss14 = 100]

ExclusiveFiles == {File(OnlyStage2), File(OnlyCanslim), File(OnlyMonthly)}

InitExclusive == files \in [Symbols -> ExclusiveFiles] /\ Idle

SpecExclusive == InitExclusive /\ [][Next]_vars

\* ------------------------------------------------------------------------
\* Single-symbol runs: scan_symbol (the --symbol path of the CLI) and the
\* three strategies on the frame scan_symbol hands them
\* ------------------------------------------------------------------------

CallScanSymbol ==
    /\ pc = "idle"
    /\ \E symbol \in DOMAIN files :
          \E r \in {scan_symbol(files, symbol)} :
              /\ symbols' = <<symbol>>
              /\ signals' = r.signals
              /\ result' = IF r.raised THEN result ELSE r.signals
              /\ pc' = IF r.raised THEN "raised" ELSE "done"
              /\ calls' = calls \o [k \in DOMAIN r.calls |-> <<symbol, r.calls[k]>>]
              /\ log' = log \o r.log
    /\ op' = "scan_symbol"
    /\ UNCHANGED <<arg, analyzer, ncalls, files, i, all_signals, scanned>>

\* the frame scan_symbol passes to the strategies for this symbol, if any
StrategyInput(symbol) ==
    LET l == load_ohlcv(files, symbol)
    IN  IF l.ret = None THEN None ELSE calculate_indicators(l.ret)

CallStage2Breakout ==
    /\ pc = "idle"
    /\ \E symbol \in DOMAIN files :
          \E df \in {StrategyInput(symbol)} :
              /\ df # None /\ ~df.raised
              /\ symbols' = <<symbol>>
              /\ result' = strategy_stage2_breakout(df, symbol)
              /\ calls' = Append(calls, <<symbol, "stage2_breakout">>)
    /\ op' = "strategy_stage2_breakout" /\ pc' = "done"
    /\ UNCHANGED <<arg, analyzer, ncalls, files, i, all_signals, scanned, signals, log>>

CallCanslim ==
    /\ pc = "idle"
    /\ \E symbol \in DOMAIN files :
          \E df \in {StrategyInput(symbol)} :
              /\ df # None /\ ~df.raised
              /\ symbols' = <<symbol>>
              /\ result' = strategy_canslim(df, symbol)
              /\ calls' = Append(calls, <<symbol, "canslim">>)
    /\ op' = "strategy_canslim" /\ pc' = "done"
    /\ UNCHANGED <<arg, analyzer, ncalls, files, i, all_signals, scanned, signals, log>>

CallMonthlyTrend ==
    /\ pc = "idle"
    /\ \E symbol \in DOMAIN files :
          \E df \in {StrategyInput(symbol)} :
              /\ df # None /\ ~df.raised
              /\ symbols' = <<symbol>>
              /\ result' = strategy_monthly_trend(df, symbol)
              /\ calls' = Append(calls, <<symbol, "monthly_trend">>)
    /\ op' = "strategy_monthly_trend" /\ pc' = "done"
    /\ UNCHANGED <<arg, analyzer, ncalls, files, i, all_signals, scanned, signals, log>>

NextSymbol ==
    \/ CallScanSymbol
    \/ CallStage2Breakout
    \/ CallCanslim
    \/ CallMonthlyTrend

SpecSymbol == InitSymbol /\ [][NextSymbol]_vars

\* ------------------------------------------------------------------------
\* Single-symbol runs on series of about one year
\* ------------------------------------------------------------------------

\* from one bar under the 200 of load_ohlcv, over the 252 of the 52-week
\* window, to one bar over the 262 that SMA_200.iloc[-63] needs
YearLens == 199 .. 263

\* the last-row windows on which all three strategies fire, and those on
\* which one strategy alone does, for each length
YearFrames ==
    { [d EXCEPT !.len = n] :
        d \in {BaseFrame(18000, 300), OnlyStage2, OnlyCanslim, OnlyMonthly},
        n \in YearLens }

InitYear ==
    /\ \E df \in YearFrames : files = [sym \in {SymA} |-> File(df)]
    /\ Idle

SpecYear == InitYear /\ [][NextSymbol]_vars

\* ------------------------------------------------------------------------
\* Single-symbol runs on series whose stop comes as close to the entry as a
\* series of positive prices allows
\* ------------------------------------------------------------------------

\* Stage-2 Breakout (close 18000/1024): a 30-week average just under, on
\* and just over the close, and one whose 95% is just over the close
StopStage2Frames ==
    { [BaseFrame(18000, 300) EXCEPT
          !.sum150 = 150 * f[1], !.sum200 = 200 * f[2], !.max252 = f[3]] :
      f \in {16000, 17999, 18000, 18001, 18947, 18948}
            \X {15000, 17998}
            \X {18000, 19000, 19999} }

\* CANSLIM (close 21413/1024): a 52-week high up to 5% over the close and a
\* 50-day average under, on and over the close
StopCanslimFrames ==
    { [BaseFrame(21413, 300) EXCEPT
          !.max252 = f[1], !.sum50 = 50 * f[2], !.max20 = f[3]] :
      f \in {21413, 22000, 22539, 22540}
            \X {21113, 21412, 21413, 21414, 21900, 22000}
            \X {21413, 21850} }

\* Monthly Trend (close 20600/1024): the averages 1/1024 apart under the
\* close, equal to each other and to the close, and in the wrong order
StopMonthlyFrames ==
    { [BaseFrame(20600, 300) EXCEPT
          !.sum50 = 50 * f[1], !.sum150 = 150 * f[2], !.sum200 = 200 * f[2],
          !.sum200_63 = 200 * f[2] - 1, !.max252 = f[3]] :
      f \in {20001, 20599, 20600, 20601}
            \X {17600, 20000, 20001, 20598, 20599, 20600}
            \X {20600, 21000} }

StopFrames ==
    {d \in StopStage2Frames \cup StopCanslimFrames \cup StopMonthlyFrames :
        WellFormed(d)}

InitStop ==
    /\ \E df \in StopFrames : files = [sym \in {SymA} |-> File(df)]
    /\ Idle

SpecStop == InitStop /\ [][NextSymbol]_vars

\* ------------------------------------------------------------------------
\* detect_stage called on its own, on the last row of an indicator frame
\* ------------------------------------------------------------------------

\* close and averages are drawn from 1 .. MaxLevel: four levels give every
\* ordering of the close and the three averages, ties included
MaxLevel == 4

\* an average of a window longer than the series is NaN, so a missing
\* SMA_50 implies a missing SMA_150, and that a missing SMA_200
Averages ==
    LET L == {Num(k) : k \in 1..MaxLevel}
    IN  (L \X L \X L) \cup (L \X L \X {NaN}) \cup (L \X {NaN} \X {NaN})
            \cup {<<NaN, NaN, NaN>>}

\* the last row after calculate_indicators: SMA_30w is the 150-bar and
\* SMA_40w the 200-bar average
StageRows ==
    {[close   |-> Num(c),
      SMA_50  |-> a[1], SMA_150 |-> a[2], SMA_200 |-> a[3],
      SMA_30w |-> a[2], SMA_40w |-> a[3]] : c \in 1..MaxLevel, a \in Averages}

InitStage ==
    /\ files = <<>>
    /\ op = "none" /\ pc = "idle" /\ symbols = <<>> /\ i = 1
    /\ all_signals = <<>> /\ scanned = 0 /\ signals = <<>>
    /\ calls = <<>> /\ log = <<>> /\ result = None
    /\ analyzer = None /\ ncalls = 0
    /\ arg \in StageRows

CallDetectStage ==
    /\ pc = "idle"
    /\ op' = "detect_stage"
    /\ result' = detect_stage(arg)
    /\ pc' = "done"
    /\ UNCHANGED <<arg, analyzer, ncalls, files, symbols, i, all_signals, scanned,
                   signals, calls, log>>

NextStage == CallDetectStage

SpecStage == InitStage /\ [][NextStage]_vars

\* ------------------------------------------------------------------------
\* TechnicalAnalyzer (technical_indicators.py)
\* ------------------------------------------------------------------------
\* The DataFrame handed to TechnicalAnalyzer is kept as its columns, its
\* length and what the last row of every indicator column is computed from:
\*   close, prev_close, volume   the last close, the close before it, the
\*                               last volume
\*   ema_9 .. ema_26             close.ewm(span, adjust=False).mean()
\*   macd_signal                 the 9-span EWM of macd
\*   macd_histogram_prev         macd_histogram one bar back
\*   sum20, sum50, sum200        sums of the last closes; std20 their
\*                               20-bar standard deviation
\*   gain14, loss14              sums of the positive / negative close
\*                               changes of the last 14 bars
\*   low_14, high_14             lowest low and highest high of 14 bars
\*   stoch_k_prev                sum of %K of the two bars before the last
\*                               (stoch_k_prev_nan: one of them is NaN)
\*   tr14, plus_dm14, minus_dm14 sums of true range and of the clipped
\*                               high / low changes over 14 bars
\*   dxSum, dxNaN                sum of DX over 14 bars; dxNaN when one of
\*                               them is NaN
\*   volume20                    sum of the last 20 volumes
\* obv, momentum, roc, bb_width and atr are computed by the code but read by
\* none of the analyses and are left out.

\* Series.ewm(span=span, adjust=False).mean() at bar t of the values xs: the
\* recursion starts at the first bar and has no minimum window, so it is
\* defined on every bar
RECURSIVE ewm_mean(_, _, _)
ewm_mean(xs, span, t) ==
    IF t = 1 THEN xs[1]
    ELSE Add(Mul(Rat(span - 1, span + 1), ewm_mean(xs, span, t - 1)),
             Mul(Rat(2, span + 1), xs[t]))

\* Series.rolling(window).std() / .min() on the last row
rolling_std(std, window, len) ==
    IF len < window THEN NaN ELSE std

rolling_min(min, window, len) ==
    IF len < window THEN NaN ELSE min

\* _ensure_columns: TRUE when it returns, FALSE when it raises ValueError
ensure_columns(df) ==
    {"open", "high", "low", "close", "volume"} \subseteq df.columns

\* _calculate_adx on the last row: high.diff() and low.diff() are NaN on the
\* first bar, so their 14-bar means need 15 bars; dx is defined from bar 15
\* and its 14-bar mean from bar 28
calculate_adx(df) ==
    LET atr      == rolling_mean(Num(df.tr14), 14, df.len)
        plus_di  == Mul(Num(100),
                        Div(rolling_mean(Num(df.plus_dm14), 14, df.len - 1),
                            atr))
        minus_di == AbsV(Mul(Num(100),
                        Div(rolling_mean(Num(df.minus_dm14), 14, df.len - 1),
                            atr)))
        dx_sum   == IF df.dxNaN THEN NaN ELSE Num(df.dxSum)
    IN  [adx      |-> rolling_mean(dx_sum, 14, df.len - 14),
         plus_di  |-> plus_di,
         minus_di |-> minus_di]

\* _calculate_indicators: the last row of self.df
ta_calculate_indicators(df) ==
    LET close     == Num(df.close)
        gain      == rolling_mean(Num(df.gain14), 14, df.len)
        loss      == rolling_mean(Num(df.loss14), 14, df.len)
        rs        == Div(gain, loss)
        macd      == Sub(df.ema_12, df.ema_26)
        bb_middle == rolling_mean(Num(df.sum20), 20, df.len)
        bb_std    == rolling_std(Num(df.std20), 20, df.len)
        low_14    == rolling_min(Num(df.low_14), 14, df.len)
        high_14   == rolling_max(Num(df.high_14), 14, df.len)
        stoch_k   == Div(Mul(Num(100), Sub(close, low_14)),
                         Sub(high_14, low_14))
        adx       == calculate_adx(df)
    IN  [raised      |-> FALSE,
         len         |-> df.len,
         close       |-> close,
         prev_close  |-> Num(df.prev_close),
         volume      |-> df.volume,
         sma_20      |-> rolling_mean(Num(df.sum20), 20, df.len),
         sma_50      |-> rolling_mean(Num(df.sum50), 50, df.len),
         sma_200     |-> rolling_mean(Num(df.sum200), 200, df.len),
         ema_9       |-> df.ema_9,
         ema_21      |-> df.ema_21,
         rsi         |-> Sub(Num(100), Div(Num(100), Add(Num(1), rs))),
         macd        |-> macd,
         macd_signal |-> df.macd_signal,
         macd_histogram      |-> Sub(macd, df.macd_signal),
         macd_histogram_prev |-> df.macd_histogram_prev,
         bb_middle   |-> bb_middle,
         bb_upper    |-> Add(bb_middle, Mul(bb_std, Num(2))),
         bb_lower    |-> Sub(bb_middle, Mul(bb_std, Num(2))),
         stoch_k     |-> stoch_k,
         stoch_d     |-> IF df.len < 16 \/ df.stoch_k_prev_nan THEN NaN
                         ELSE Div(Add(Num(df.stoch_k_prev), stoch_k), Num(3)),
         volume_sma  |-> rolling_mean(Num(df.volume20), 20, df.len),
         adx         |-> adx.adx,
         plus_di     |-> adx.plus_di,
         minus_di    |-> adx.minus_di]

\* TechnicalAnalyzer(df): Raised when _ensure_columns raises, else self.df
TechnicalAnalyzer(df) ==
    IF ~ensure_columns(df) THEN Raised ELSE ta_calculate_indicators(df)

\* Series.iloc[-2]: IndexError on a series of one bar
iloc_2(self, column) ==
    IF self.len > 1 THEN self[column] ELSE Raised

IndicatorResult(name, value, signal, description) ==
    [name |-> name, value |-> value, signal |-> signal,
     description |-> description]

\* a variant of analyze_rsi: an RSI without losses (NaN) is read as 100
analyze_rsi_nan_is_overbought(self) ==
    LET rsi == IF IsNaN(self.rsi) /\ self.len >= 14 THEN Num(100)
               ELSE self.rsi
    IN  IF IsNaN(rsi)
        THEN IndicatorResult("RSI", Num(0), "NEUTRAL", "Insufficient data")
        ELSE IF LT(rsi, Num(20))
        THEN IndicatorResult("RSI", Round(rsi, 2), "STRONG_BUY",
                             "Extremely oversold, potential reversal")
        ELSE IF LT(rsi, Num(30))
        THEN IndicatorResult("RSI", Round(rsi, 2), "BUY",
                             "Oversold condition")
        ELSE IF GT(rsi, Num(80))
        THEN IndicatorResult("RSI", Round(rsi, 2), "STRONG_SELL",
                             "Extremely overbought, potential reversal")
        ELSE IF GT(rsi, Num(70))
        THEN IndicatorResult("RSI", Round(rsi, 2), "SELL",
                             "Overbought condition")
        ELSE IndicatorResult("RSI", Round(rsi, 2), "NEUTRAL", "Neutral zone")

\* a variant of analyze_rsi: the oversold and overbought bounds are inclusive
analyze_rsi_inclusive(self) ==
    LET rsi == self.rsi
        LE(x, y) == ~x.nan /\ ~y.nan /\ Cmp(x, y) <= 0
        GE(x, y) == ~x.nan /\ ~y.nan /\ Cmp(x, y) >= 0
    IN  IF IsNaN(rsi)
        THEN IndicatorResult("RSI", Num(0), "NEUTRAL", "Insufficient data")
        ELSE IF LT(rsi, Num(20))
        THEN IndicatorResult("RSI", Round(rsi, 2), "STRONG_BUY",
                             "Extremely oversold, potential reversal")
        ELSE IF LE(rsi, Num(30))
        THEN IndicatorResult("RSI", Round(rsi, 2), "BUY",
                             "Oversold condition")
        ELSE IF GT(rsi, Num(80))
        THEN IndicatorResult("RSI", Round(rsi, 2), "STRONG_SELL",
                             "Extremely overbought, potential reversal")
        ELSE IF GE(rsi, Num(70))
        THEN IndicatorResult("RSI", Round(rsi, 2), "SELL",
                             "Overbought condition")
        ELSE IndicatorResult("RSI", Round(rsi, 2), "NEUTRAL", "Neutral zone")

\* the descriptions are kept without the numbers formatted into them
analyze_rsi(self) ==
    LET rsi == self.rsi
    IN  IF IsNaN(rsi)
        THEN IndicatorResult("RSI", Num(0), "NEUTRAL", "Insufficient data")
        ELSE IF LT(rsi, Num(20))
        THEN IndicatorResult("RSI", Round(rsi, 2), "STRONG_BUY",
                             "Extremely oversold, potential reversal")
        ELSE IF LT(rsi, Num(30))
        THEN IndicatorResult("RSI", Round(rsi, 2), "BUY",
                             "Oversold condition")
        ELSE IF GT(rsi, Num(80))
        THEN IndicatorResult("RSI", Round(rsi, 2), "STRONG_SELL",
                             "Extremely overbought, potential reversal")
        ELSE IF GT(rsi, Num(70))
        THEN IndicatorResult("RSI", Round(rsi, 2), "SELL",
                             "Overbought condition")
        ELSE IndicatorResult("RSI", Round(rsi, 2), "NEUTRAL", "Neutral zone")

\* a variant of analyze_macd: the previous histogram read without the
\* len(self.df) > 1 guard
analyze_macd_unguarded(self) ==
    LET macd           == self.macd
        signal_line    == self.macd_signal
        histogram      == self.macd_histogram
        prev_histogram == iloc_2(self, "macd_histogram_prev")
        LE0(x) == LT(x, Num(0)) \/ IsZero(x)
        GE0(x) == GT(x, Num(0)) \/ IsZero(x)
    IN  IF prev_histogram = Raised THEN Raised
        ELSE IF IsNaN(macd) \/ IsNaN(signal_line)
        THEN IndicatorResult("MACD", Num(0), "NEUTRAL", "Insufficient data")
        ELSE IF GT(histogram, Num(0)) /\ LE0(prev_histogram)
        THEN IndicatorResult("MACD", Round(histogram, 2), "STRONG_BUY",
                             "MACD bullish crossover - Strong buy signal")
        ELSE IF LT(histogram, Num(0)) /\ GE0(prev_histogram)
        THEN IndicatorResult("MACD", Round(histogram, 2), "STRONG_SELL",
                             "MACD bearish crossover - Strong sell signal")
        ELSE IF GT(macd, signal_line)
        THEN IndicatorResult("MACD", Round(histogram, 2), "BUY",
                             "MACD above signal line - Bullish momentum")
        ELSE IF LT(macd, signal_line)
        THEN IndicatorResult("MACD", Round(histogram, 2), "SELL",
                             "MACD below signal line - Bearish momentum")
        ELSE IndicatorResult("MACD", Round(histogram, 2), "NEUTRAL", "MACD neutral")

\* a variant of analyze_macd: a crossover needs a previous histogram on the
\* other side of zero, a previous histogram of exactly 0 does not count
analyze_macd_strict_crossover(self) ==
    LET macd           == self.macd
        signal_line    == self.macd_signal
        histogram      == self.macd_histogram
        prev_histogram == IF self.len > 1
                          THEN iloc_2(self, "macd_histogram_prev")
                          ELSE Num(0)
    IN  IF prev_histogram = Raised THEN Raised
        ELSE IF IsNaN(macd) \/ IsNaN(signal_line)
        THEN IndicatorResult("MACD", Num(0), "NEUTRAL", "Insufficient data")
        ELSE IF GT(histogram, Num(0)) /\ LT(prev_histogram, Num(0))
        THEN IndicatorResult("MACD", Round(histogram, 2), "STRONG_BUY",
                             "MACD bullish crossover - Strong buy signal")
        ELSE IF LT(histogram, Num(0)) /\ GT(prev_histogram, Num(0))
        THEN IndicatorResult("MACD", Round(histogram, 2), "STRONG_SELL",
                             "MACD bearish crossover - Strong sell signal")
        ELSE IF GT(macd, signal_line)
        THEN IndicatorResult("MACD", Round(histogram, 2), "BUY",
                             "MACD above signal line - Bullish momentum")
        ELSE IF LT(macd, signal_line)
        THEN IndicatorResult("MACD", Round(histogram, 2), "SELL",
                             "MACD below signal line - Bearish momentum")
        ELSE IndicatorResult("MACD", Round(histogram, 2), "NEUTRAL", "MACD neutral")

analyze_macd(self) ==
    LET macd           == self.macd
        signal_line    == self.macd_signal
        histogram      == self.macd_histogram
        prev_histogram == IF self.len > 1
                          THEN iloc_2(self, "macd_histogram_prev")
                          ELSE Num(0)
        LE0(x) == LT(x, Num(0)) \/ IsZero(x)
        GE0(x) == GT(x, Num(0)) \/ IsZero(x)
    IN  IF prev_histogram = Raised THEN Raised
        ELSE IF IsNaN(macd) \/ IsNaN(signal_line)
        THEN IndicatorResult("MACD", Num(0), "NEUTRAL", "Insufficient data")
        ELSE IF GT(histogram, Num(0)) /\ LE0(prev_histogram)
        THEN IndicatorResult("MACD", Round(histogram, 2), "STRONG_BUY",
                             "MACD bullish crossover - Strong buy signal")
        ELSE IF LT(histogram, Num(0)) /\ GE0(prev_histogram)
        THEN IndicatorResult("MACD", Round(histogram, 2), "STRONG_SELL",
                             "MACD bearish crossover - Strong sell signal")
        ELSE IF GT(macd, signal_line)
        THEN IndicatorResult("MACD", Round(histogram, 2), "BUY",
                             "MACD above signal line - Bullish momentum")
        ELSE IF LT(macd, signal_line)
        THEN IndicatorResult("MACD", Round(histogram, 2), "SELL",
                             "MACD below signal line - Bearish momentum")
        ELSE IndicatorResult("MACD", Round(histogram, 2), "NEUTRAL", "MACD neutral")

\* sum(signals) / len(signals) over a list of +1 / -1: ZeroDivisionError on
\* an empty list
avg_of(votes) ==
    IF Len(votes) = 0 THEN Raised
    ELSE Rat(Len(SelectSeq(votes, LAMBDA v : v = 1))
                 - Len(SelectSeq(votes, LAMBDA v : v # 1)), Len(votes))

\* a variant of analyze_moving_averages: a majority of the votes decides
analyze_moving_averages_majority(self) ==
    LET close   == self.close
        ema_9   == self.ema_9
        ema_21  == self.ema_21
        sma_50  == self.sma_50
        sma_200 == self.sma_200
        vote(b) == IF b THEN 1 ELSE 0 - 1
        ma_signals == <<vote(GT(ema_9, ema_21)), vote(GT(close, sma_50))>>
                     \o (IF ~IsNaN(sma_200)
                         THEN <<vote(GT(sma_50, sma_200))>> ELSE <<>>)
        avg_signal == avg_of(ma_signals)
    IN  IF IsNaN(sma_50)
        THEN IndicatorResult("Moving Averages", Num(0), "NEUTRAL",
                             "Insufficient data")
        ELSE IF avg_signal = Raised THEN Raised
        ELSE IF GT(avg_signal, Num(0))
        THEN IndicatorResult("Moving Averages", Round(avg_signal, 2), "BUY",
                             "Moving averages bullish - Price above key MAs")
        ELSE IF LT(avg_signal, Num(0))
        THEN IndicatorResult("Moving Averages", Round(avg_signal, 2), "SELL",
                             "Moving averages bearish - Price below key MAs")
        ELSE IndicatorResult("Moving Averages", Round(avg_signal, 2),
                             "NEUTRAL", "Mixed moving average signals")

analyze_moving_averages(self) ==
    LET close   == self.close
        ema_9   == self.ema_9
        ema_21  == self.ema_21
        sma_50  == self.sma_50
        sma_200 == self.sma_200
        vote(b) == IF b THEN 1 ELSE 0 - 1
        ma_signals == <<vote(GT(ema_9, ema_21)), vote(GT(close, sma_50))>>
                     \o (IF ~IsNaN(sma_200)
                         THEN <<vote(GT(sma_50, sma_200))>> ELSE <<>>)
        avg_signal == avg_of(ma_signals)
    IN  IF IsNaN(sma_50)
        THEN IndicatorResult("Moving Averages", Num(0), "NEUTRAL",
                             "Insufficient data")
        ELSE IF avg_signal = Raised THEN Raised
        ELSE IF GT(avg_signal, Rat(1, 2))
        THEN IndicatorResult("Moving Averages", Round(avg_signal, 2), "BUY",
                             "Moving averages bullish - Price above key MAs")
        ELSE IF LT(avg_signal, Rat(0 - 1, 2))
        THEN IndicatorResult("Moving Averages", Round(avg_signal, 2), "SELL",
                             "Moving averages bearish - Price below key MAs")
        ELSE IndicatorResult("Moving Averages", Round(avg_signal, 2),
                             "NEUTRAL", "Mixed moving average signals")

analyze_bollinger_bands(self) ==
    LET close       == self.close
        bb_upper    == self.bb_upper
        bb_lower    == self.bb_lower
        bb_position == Div(Sub(close, bb_lower), Sub(bb_upper, bb_lower))
    IN  IF IsNaN(bb_upper)
        THEN IndicatorResult("Bollinger Bands", Num(0), "NEUTRAL",
                             "Insufficient data")
        ELSE IF LT(close, bb_lower)
        THEN IndicatorResult("Bollinger Bands", Round(bb_position, 2),
                             "STRONG_BUY",
                             "Price below lower band - Potentially oversold")
        ELSE IF GT(close, bb_upper)
        THEN IndicatorResult("Bollinger Bands", Round(bb_position, 2),
                             "STRONG_SELL",
                             "Price above upper band - Potentially overbought")
        ELSE IF LT(bb_position, Rat(2, 10))
        THEN IndicatorResult("Bollinger Bands", Round(bb_position, 2), "BUY",
                             "Price near lower band - Potential bounce")
        ELSE IF GT(bb_position, Rat(8, 10))
        THEN IndicatorResult("Bollinger Bands", Round(bb_position, 2), "SELL",
                             "Price near upper band - Potential resistance")
        ELSE IndicatorResult("Bollinger Bands", Round(bb_position, 2),
                             "NEUTRAL",
                             "Price within bands - No extreme condition")

analyze_stochastic(self) ==
    LET stoch_k == self.stoch_k
        stoch_d == self.stoch_d
    IN  IF IsNaN(stoch_k)
        THEN IndicatorResult("Stochastic", Num(0), "NEUTRAL",
                             "Insufficient data")
        ELSE IF LT(stoch_k, Num(20)) /\ LT(stoch_d, Num(20))
        THEN IndicatorResult("Stochastic", Round(stoch_k, 2), "STRONG_BUY",
                             "Oversold")
        ELSE IF LT(stoch_k, Num(30))
        THEN IndicatorResult("Stochastic", Round(stoch_k, 2), "BUY",
                             "Approaching oversold")
        ELSE IF GT(stoch_k, Num(80)) /\ GT(stoch_d, Num(80))
        THEN IndicatorResult("Stochastic", Round(stoch_k, 2), "STRONG_SELL",
                             "Overbought")
        ELSE IF GT(stoch_k, Num(70))
        THEN IndicatorResult("Stochastic", Round(stoch_k, 2), "SELL",
                             "Approaching overbought")
        ELSE IndicatorResult("Stochastic", Round(stoch_k, 2), "NEUTRAL",
                             "Neutral")

analyze_adx(self) ==
    LET adx      == self.adx
        plus_di  == self.plus_di
        minus_di == self.minus_di
        \* trend_strength.title(); "weak" cannot meet adx > 25
        strong   == ~LT(adx, Num(20)) /\ ~LT(adx, Num(40))
    IN  IF IsNaN(adx)
        THEN IndicatorResult("ADX", Num(0), "NEUTRAL", "Insufficient data")
        ELSE IF GT(adx, Num(25))
        THEN (IF GT(plus_di, minus_di)
              THEN IndicatorResult("ADX", Round(adx, 2), "BUY",
                       IF strong THEN "Strong uptrend"
                       ELSE "Moderate uptrend")
              ELSE IndicatorResult("ADX", Round(adx, 2), "SELL",
                       IF strong THEN "Strong downtrend"
                       ELSE "Moderate downtrend"))
        ELSE IndicatorResult("ADX", Round(adx, 2), "NEUTRAL",
                             "Weak/no trend")

analyze_volume(self) ==
    LET volume     == Num(self.volume)
        volume_sma == self.volume_sma
        close      == self.close
        prev_close == IF self.len > 1 THEN iloc_2(self, "prev_close")
                      ELSE close
        volume_ratio == Div(volume, volume_sma)
        price_change == Sub(close, prev_close)
    IN  IF prev_close = Raised THEN Raised
        ELSE IF IsNaN(volume_sma)
        THEN IndicatorResult("Volume", Num(0), "NEUTRAL", "Insufficient data")
        ELSE IF GT(volume_ratio, Rat(15, 10))
        THEN (IF GT(price_change, Num(0))
              THEN IndicatorResult("Volume", Round(volume_ratio, 2),
                                   "STRONG_BUY",
                                   "High volume with price increase")
              ELSE IndicatorResult("Volume", Round(volume_ratio, 2),
                                   "STRONG_SELL",
                                   "High volume with price decrease"))
        ELSE IF GT(volume_ratio, Rat(12, 10))
        THEN (IF GT(price_change, Num(0))
              THEN IndicatorResult("Volume", Round(volume_ratio, 2), "BUY",
                          "Above average volume with bullish price action")
              ELSE IndicatorResult("Volume", Round(volume_ratio, 2), "SELL",
                          "Above average volume with bearish price action"))
        ELSE IndicatorResult("Volume", Round(volume_ratio, 2), "NEUTRAL",
                             "Normal volume")

\* the keys of the indicators dict, in insertion order
IndicatorKeys ==
    <<"rsi", "macd", "moving_averages", "bollinger_bands", "stochastic",
      "adx", "volume">>

Analyses(self) ==
    [rsi             |-> analyze_rsi(self),
     macd            |-> analyze_macd(self),
     moving_averages |-> analyze_moving_averages(self),
     bollinger_bands |-> analyze_bollinger_bands(self),
     stochastic      |-> analyze_stochastic(self),
     adx             |-> analyze_adx(self),
     volume          |-> analyze_volume(self)]

\* a variant of CountSignals that misses the strong signals
CountSignals_plain_only(indicators, S) ==
    Cardinality({k \in DOMAIN indicators :
                    indicators[k].signal \in S \cap {"BUY", "SELL"}})

\* how many of the indicators carry one of the signals in S
CountSignals(indicators, S) ==
    Cardinality({k \in DOMAIN indicators : indicators[k].signal \in S})

\* a variant of overall_of: a plain majority of the seven is a strong
\* signal
overall_of_strong_at_4(bullish, bearish) ==
    IF bullish >= 4 THEN "STRONG_BUY"
    ELSE IF bearish >= 4 THEN "STRONG_SELL"
    ELSE "NEUTRAL"

\* the overall signal of get_full_analysis from the two counts
overall_of(bullish, bearish) ==
    IF bullish >= 5 THEN "STRONG_BUY"
    ELSE IF bullish >= 4 THEN "BUY"
    ELSE IF bearish >= 5 THEN "STRONG_SELL"
    ELSE IF bearish >= 4 THEN "SELL"
    ELSE "NEUTRAL"

\* get_full_analysis: Raised when one of the analyses raises, else the
\* TechnicalSummary; analysis_text is kept as its lines without the price
get_full_analysis(self, symbol) ==
    LET indicators == Analyses(self)
        bullish == CountSignals(indicators, {"BUY", "STRONG_BUY"})
        bearish == CountSignals(indicators, {"SELL", "STRONG_SELL"})
        neutral == Cardinality(DOMAIN indicators) - bullish - bearish
        overall == overall_of(bullish, bearish)
        emoji(r) == IF r.signal \in {"BUY", "STRONG_BUY"} THEN "green"
                    ELSE IF r.signal \in {"SELL", "STRONG_SELL"} THEN "red"
                    ELSE "white"
    IN  IF \E k \in DOMAIN indicators : indicators[k] = Raised THEN Raised
        ELSE [symbol         |-> symbol,
              current_price  |-> self.close,
              indicators     |-> indicators,
              overall_signal |-> overall,
              bullish_count  |-> bullish,
              bearish_count  |-> bearish,
              neutral_count  |-> neutral,
              analysis_text  |->
                  <<symbol, <<bullish, bearish, neutral>>, overall>> \o
                  [k \in 1..Len(IndicatorKeys) |->
                      LET r == indicators[IndicatorKeys[k]]
                      IN  <<emoji(r), r.name, r.description>>]]

\* ------------------------------------------------------------------------
\* The frames handed to TechnicalAnalyzer
\* ------------------------------------------------------------------------

\* a series of `len` bars closing at 1000 on which every analysis is
\* NEUTRAL once its window is filled
BaseTA(len) ==
    [columns   |-> OHLCV,
     len       |-> len,
     close     |-> 1000,
     prev_close |-> 1000,
     volume    |-> 20,
     ema_9     |-> Num(1005),
     ema_21    |-> Num(1000),
     ema_12    |-> Num(1000),
     ema_26    |-> Num(1000),
     macd_signal |-> Num(0),
     macd_histogram_prev |-> Num(0),
     sum20     |-> 20 * 1000,
     std20     |-> 10,
     sum50     |-> 50 * 990,
     sum200    |-> 200 * 995,
     gain14    |-> 50,
     loss14    |-> 50,
     low_14    |-> 950,
     high_14   |-> 1050,
     stoch_k_prev     |-> 100,
     stoch_k_prev_nan |-> len < 15,
     tr14      |-> 280,
     plus_dm14 |-> 70,
     minus_dm14 |-> 0 - 70,
     dxSum     |-> 280,
     dxNaN     |-> FALSE,
     volume20  |-> 400]

\* One change per analysis moves it to a bullish or a bearish signal; the
\* seven changes touch different fields, except that a volume signal needs
\* a last price change, which the RSI sums always cover.
Tilt == {"bull", "bear", "neutral"}

Strength == {"strong_bull", "strong_bear"}

\* RSI 25 / 75 / 10 / 90
TiltRsi(f, t) ==
    CASE t = "bull"        -> [f EXCEPT !.gain14 = 25, !.loss14 = 75]
      [] t = "bear"        -> [f EXCEPT !.gain14 = 75, !.loss14 = 25]
      [] t = "strong_bull" -> [f EXCEPT !.gain14 = 10, !.loss14 = 90]
      [] t = "strong_bear" -> [f EXCEPT !.gain14 = 90, !.loss14 = 10]
      [] OTHER             -> f

\* MACD 10 or -10 against a signal line of 5 or -5; strong: the histogram
\* has just changed sign
TiltMacd(f, t) ==
    CASE t = "bull"        -> [f EXCEPT !.ema_12 = Num(1010),
                                        !.macd_signal = Num(5),
                                        !.macd_histogram_prev = Num(3)]
      [] t = "bear"        -> [f EXCEPT !.ema_12 = Num(990),
                                        !.macd_signal = Num(0 - 5),
                                        !.macd_histogram_prev = Num(0 - 3)]
      [] t = "strong_bull" -> [f EXCEPT !.ema_12 = Num(1010),
                                        !.macd_signal = Num(5),
                                        !.macd_histogram_prev = Num(0 - 3)]
      [] t = "strong_bear" -> [f EXCEPT !.ema_12 = Num(990),
                                        !.macd_signal = Num(0 - 5),
                                        !.macd_histogram_prev = Num(3)]
      [] OTHER             -> f

\* the three votes all up, all down, or two up and one down
TiltMa(f, t) ==
    CASE t \in {"bull", "strong_bull"} ->
             [f EXCEPT !.sum50 = 50 * 990, !.sum200 = 200 * 980]
      [] t \in {"bear", "strong_bear"} ->
             [f EXCEPT !.ema_9 = Num(995), !.sum50 = 50 * 1010,
                       !.sum200 = 200 * 1020]
      [] OTHER -> f

\* position in the bands 0.125 / 0.875; strong: outside the bands
TiltBb(f, t) ==
    CASE t = "bull"        -> [f EXCEPT !.sum20 = 20 * 1015]
      [] t = "bear"        -> [f EXCEPT !.sum20 = 20 * 985]
      [] t = "strong_bull" -> [f EXCEPT !.sum20 = 20 * 1030]
      [] t = "strong_bear" -> [f EXCEPT !.sum20 = 20 * 970]
      [] OTHER             -> f

\* %K 20 / 80; strong: %K 10 / 90 with %D on the same side
TiltStoch(f, t) ==
    CASE t = "bull"        -> [f EXCEPT !.low_14 = 980, !.high_14 = 1080]
      [] t = "bear"        -> [f EXCEPT !.low_14 = 920, !.high_14 = 1020]
      [] t = "strong_bull" -> [f EXCEPT !.low_14 = 990, !.high_14 = 1090,
                                        !.stoch_k_prev = 30]
      [] t = "strong_bear" -> [f EXCEPT !.low_14 = 910, !.high_14 = 1010,
                                        !.stoch_k_prev = 170]
      [] OTHER             -> f

\* ADX 30 with +DI 50 over -DI 25, or the reverse
TiltAdx(f, t) ==
    CASE t \in {"bull", "strong_bull"} ->
             [f EXCEPT !.dxSum = 420, !.plus_dm14 = 140]
      [] t \in {"bear", "strong_bear"} ->
             [f EXCEPT !.dxSum = 420, !.minus_dm14 = 0 - 140]
      [] OTHER -> f

\* volume 1.5 or 2 times its average, on a close 10 above or below the
\* previous one
TiltVolume(f, t) ==
    CASE t = "bull"        -> [f EXCEPT !.volume = 30, !.prev_close = 990]
      [] t = "bear"        -> [f EXCEPT !.volume = 30, !.prev_close = 1010]
      [] t = "strong_bull" -> [f EXCEPT !.volume = 40, !.prev_close = 990]
      [] t = "strong_bear" -> [f EXCEPT !.volume = 40, !.prev_close = 1010]
      [] OTHER             -> f

\* the frame with the seven analyses tilted as t[1] .. t[7]
Tilted(f, t) ==
    TiltVolume(TiltAdx(TiltStoch(TiltBb(TiltMa(TiltMacd(TiltRsi(
        f, t[1]), t[2]), t[3]), t[4]), t[5]), t[6]), t[7])

\* 300 bars, every combination of bullish, bearish and neutral analyses
LongFrames ==
    {Tilted(BaseTA(300), t) : t \in [1..7 -> Tilt]}

\* 300 bars, one analysis at a time on its strong signal
StrongFrames ==
    {Tilted(BaseTA(300), [k \in 1..7 |-> IF k = j THEN s ELSE "neutral"]) :
        j \in 1..7, s \in Strength}

\* series around the length at which each window fills
WindowLens == {13, 14, 15, 16, 19, 20, 25, 26, 27, 28, 34, 49, 50, 199, 200}

WindowFrames ==
    {Tilted(BaseTA(len), [k \in 1..7 |-> t]) : len \in WindowLens, t \in Tilt}

\* `len` identical bars with open = high = low = close and a constant volume
FlatTA(len, close, volume) ==
    [columns   |-> OHLCV,
     len       |-> len,
     close     |-> close,
     prev_close |-> close,
     volume    |-> volume,
     ema_9     |-> Num(close),
     ema_21    |-> Num(close),
     ema_12    |-> Num(close),
     ema_26    |-> Num(close),
     macd_signal |-> Num(0),
     macd_histogram_prev |-> Num(0),
     sum20     |-> Min(len, 20) * close,
     std20     |-> 0,
     sum50     |-> Min(len, 50) * close,
     sum200    |-> Min(len, 200) * close,
     gain14    |-> 0,
     loss14    |-> 0,
     low_14    |-> close,
     high_14   |-> close,
     stoch_k_prev     |-> 0,
     stoch_k_prev_nan |-> TRUE,
     tr14      |-> 0,
     plus_dm14 |-> 0,
     minus_dm14 |-> 0,
     dxSum     |-> 0,
     dxNaN     |-> TRUE,
     volume20  |-> Min(len, 20) * volume]

FlatLens == {1, 2, 14, 16, 20, 28, 50, 200, 300}

FlatFrames == {FlatTA(len, 1000, v) : len \in FlatLens, v \in {0, 20}}

\* --- series of at most MaxBars bars, bar by bar
MaxBars == 2

\* a bar without range, a rising bar and a falling bar
Bars ==
    {[open |-> 100, high |-> 100, low |-> 100, close |-> 100, volume |-> 10],
     [open |-> 100, high |-> 110, low |-> 100, close |-> 110, volume |-> 20],
     [open |-> 100, high |-> 100, low |-> 90,  close |-> 90,  volume |-> 20]}

ShortSeries == ListsUpTo(Bars, MaxBars) \ {<<>>}

\* the frame of a series shorter than every rolling window: the rolling
\* columns of its last row are NaN whatever the sums (kept 0), the EWM
\* columns are computed bar by bar
FrameOfBars(bars) ==
    LET n      == Len(bars)
        closes == [t \in 1..n |-> Num(bars[t].close)]
        macds  == [t \in 1..n |-> Sub(ewm_mean(closes, 12, t),
                                      ewm_mean(closes, 26, t))]
    IN  [columns   |-> OHLCV,
         len       |-> n,
         close     |-> bars[n].close,
         prev_close |-> IF n > 1 THEN bars[n - 1].close ELSE bars[n].close,
         volume    |-> bars[n].volume,
         ema_9     |-> ewm_mean(closes, 9, n),
         ema_21    |-> ewm_mean(closes, 21, n),
         ema_12    |-> ewm_mean(closes, 12, n),
         ema_26    |-> ewm_mean(closes, 26, n),
         macd_signal |-> ewm_mean(macds, 9, n),
         macd_histogram_prev |->
             IF n > 1 THEN Sub(macds[n - 1], ewm_mean(macds, 9, n - 1))
             ELSE NaN,
         sum20 |-> 0, std20 |-> 0, sum50 |-> 0, sum200 |-> 0,
         gain14 |-> 0, loss14 |-> 0, low_14 |-> 0, high_14 |-> 0,
         stoch_k_prev |-> 0, stoch_k_prev_nan |-> TRUE,
         tr14 |-> 0, plus_dm14 |-> 0, minus_dm14 |-> 0,
         dxSum |-> 0, dxNaN |-> TRUE, volume20 |-> 0]

ShortFrames == {FrameOfBars(bars) : bars \in ShortSeries}

\* frames without one of the required columns, and one with a further column
ColumnFrames ==
    {[f EXCEPT !.columns = OHLCV \ {c}] :
        f \in {BaseTA(300), FlatTA(1, 1000, 20)}, c \in OHLCV}
    \cup {[BaseTA(300) EXCEPT !.columns = OHLCV \cup {"timestamp"}]}

AnalyzerFrames ==
    LongFrames \cup StrongFrames \cup WindowFrames \cup FlatFrames
        \cup ShortFrames \cup ColumnFrames

\* ------------------------------------------------------------------------
\* TechnicalAnalyzer: construction, then any of its methods, repeatedly
\* ------------------------------------------------------------------------

\* a method may be called MaxCalls times in a row
MaxCalls == 2

InitAnalyzer ==
    /\ files = <<>>
    /\ op = "none" /\ pc = "idle" /\ symbols = <<>> /\ i = 1
    /\ all_signals = <<>> /\ scanned = 0 /\ signals = <<>>
    /\ calls = <<>> /\ log = <<>> /\ result = None
    /\ analyzer = None /\ ncalls = 0
    /\ arg \in AnalyzerFrames

\* a variant of Construct: the constructor keeps the caller's frame (no
\* copy), so the indicator columns are added to it
Construct_in_place ==
    /\ pc = "idle" /\ arg # None
    /\ op' = "TechnicalAnalyzer"
    /\ \E self \in {TechnicalAnalyzer(arg)} :
          IF self = Raised
          THEN pc' = "raised" /\ UNCHANGED <<analyzer, arg>>
          ELSE /\ pc' = "ready" /\ analyzer' = self
               /\ arg' = [arg EXCEPT !.columns =
                             @ \cup {"sma_20", "sma_50", "sma_200", "ema_9",
                                     "ema_21", "rsi", "macd", "macd_signal",
                                     "macd_histogram", "bb_middle", "bb_upper",
                                     "bb_lower", "stoch_k", "stoch_d", "atr",
                                     "obv", "volume_sma", "adx", "plus_di",
                                     "minus_di", "momentum", "roc"}]
    /\ UNCHANGED <<ncalls, files, symbols, i, all_signals, scanned,
                   signals, calls, log, result>>

\* analyzer = TechnicalAnalyzer(df)
Construct ==
    /\ pc = "idle" /\ arg # None
    /\ op' = "TechnicalAnalyzer"
    /\ \E self \in {TechnicalAnalyzer(arg)} :
          IF self = Raised
          THEN pc' = "raised" /\ UNCHANGED analyzer
          ELSE pc' = "ready" /\ analyzer' = self
    /\ UNCHANGED <<arg, ncalls, files, symbols, i, all_signals, scanned,
                   signals, calls, log, result>>

\* a method of the analyzer called and returning (or raising) r; ncalls
\* counts the consecutive calls of the same method
Called(method, r) ==
    /\ pc = "ready"
    /\ op = method => ncalls < MaxCalls
    /\ op' = method
    /\ ncalls' = IF op = method THEN ncalls + 1 ELSE 1
    /\ IF r = Raised
       THEN pc' = "raised" /\ UNCHANGED result
       ELSE pc' = "ready" /\ result' = r
    /\ UNCHANGED <<arg, analyzer, files, symbols, i, all_signals, scanned,
                   signals, calls, log>>

AnalyzeRsi == Called("analyze_rsi", analyze_rsi(analyzer))

AnalyzeMacd == Called("analyze_macd", analyze_macd(analyzer))

AnalyzeMovingAverages ==
    Called("analyze_moving_averages", analyze_moving_averages(analyzer))

AnalyzeBollingerBands ==
    Called("analyze_bollinger_bands", analyze_bollinger_bands(analyzer))

AnalyzeStochastic ==
    Called("analyze_stochastic", analyze_stochastic(analyzer))

AnalyzeAdx == Called("analyze_adx", analyze_adx(analyzer))

AnalyzeVolume == Called("analyze_volume", analyze_volume(analyzer))

\* a variant of GetFullAnalysis that drops the analysed bar from self.df
GetFullAnalysis_consumes_bar ==
    /\ pc = "ready"
    /\ op = "get_full_analysis" => ncalls < MaxCalls
    /\ op' = "get_full_analysis"
    /\ ncalls' = IF op = "get_full_analysis" THEN ncalls + 1 ELSE 1
    /\ result' = get_full_analysis(analyzer, SymA)
    /\ analyzer' = [analyzer EXCEPT !.len = @ - 1]
    /\ pc' = "ready"
    /\ UNCHANGED <<arg, files, symbols, i, all_signals, scanned, signals,
                   calls, log>>

\* summary = analyzer.get_full_analysis(symbol)
GetFullAnalysis ==
    /\ pc = "ready"
    /\ \E r \in {get_full_analysis(analyzer, SymA)} :
          Called("get_full_analysis", r)

NextAnalyzer ==
    \/ Construct
    \/ AnalyzeRsi
    \/ AnalyzeMacd
    \/ AnalyzeMovingAverages
    \/ AnalyzeBollingerBands
    \/ AnalyzeStochastic
    \/ AnalyzeAdx
    \/ AnalyzeVolume
    \/ GetFullAnalysis

SpecAnalyzer == InitAnalyzer /\ [][NextAnalyzer]_vars

\* ------------------------------------------------------------------------
\* TechnicalAnalyzer on series at the thresholds of its analyses
\* ------------------------------------------------------------------------

\* the share of the gains in the close changes of the last 14 bars, in
\* percent: the RSI itself (0 and 100 included)
RsiGains == {0, 10, 20, 25, 30, 50, 70, 75, 80, 90, 100}

RsiFrames ==
    {[BaseTA(300) EXCEPT !.gain14 = g, !.loss14 = 100 - g] : g \in RsiGains}

\* MACD 10, 5 or -10 against a signal line of 5 or -5 (histogram 5, 0, -5),
\* after a histogram of -3, 0 or 3
MacdFrames ==
    {[BaseTA(300) EXCEPT !.ema_12 = Num(1000 + m[1]),
                         !.macd_signal = Num(m[2]),
                         !.macd_histogram_prev = Num(prev)] :
        m \in {<<10, 5>>, <<5, 5>>, <<0 - 10, 0 - 5>>},
        prev \in {0 - 3, 0, 3}}

\* 50 to 300 bars closing at 1000: EMA9 above, at and below an EMA21 of 1000,
\* SMA50 below, at and above the close, and SMA200 below, at and above
\* SMA50 (SMA200 is NaN on fewer than 200 bars)
MaLens == {50, 199, 200, 300}

MaFrames ==
    {[BaseTA(len) EXCEPT !.ema_9 = Num(e),
                         !.sum50 = 50 * s50, !.sum200 = 200 * (s50 + d)] :
        len \in MaLens, e \in {995, 1000, 1005}, s50 \in {990, 1000, 1010},
        d \in {0 - 10, 0, 10}}

\* ADX 20, 25, 26, 30 and 40 with +DI 50, 25 or 25 against -DI 25, 25 or 50:
\* the last DX is 0 when the two are equal, the ADX is the mean of 14 of them
AdxFrames ==
    {[BaseTA(300) EXCEPT !.dxSum = 14 * a,
                         !.plus_dm14 = dm[1], !.minus_dm14 = 0 - dm[2]] :
        a \in {20, 25, 26, 30, 40},
        dm \in {<<140, 70>>, <<70, 70>>, <<70, 140>>}}

\* a last volume of 1, 1.2, 1.25, 1.5 and 2 times the 20-bar mean of 20, on a
\* close above, at and below the previous close
VolumeFrames ==
    {[BaseTA(300) EXCEPT !.volume = v, !.prev_close = c] :
        v \in {20, 24, 25, 30, 40}, c \in {990, 1000, 1010}}

\* the series of one or two bars are among them: the MACD columns are
\* defined from the first bar
ThresholdFrames ==
    RsiFrames \cup MacdFrames \cup MaFrames \cup AdxFrames \cup VolumeFrames
        \cup ShortFrames

InitThreshold ==
    /\ files = <<>>
    /\ op = "none" /\ pc = "idle" /\ symbols = <<>> /\ i = 1
    /\ all_signals = <<>> /\ scanned = 0 /\ signals = <<>>
    /\ calls = <<>> /\ log = <<>> /\ result = None
    /\ analyzer = None /\ ncalls = 0
    /\ arg \in ThresholdFrames

SpecThreshold == InitThreshold /\ [][NextAnalyzer]_vars

\* ------------------------------------------------------------------------
\* A scanner over three stored symbols and an analyzer on a caller's frame
\* ------------------------------------------------------------------------

\* a long series and a frame the constructor rejects
CallerFrames ==
    { BaseTA(300), [BaseTA(300) EXCEPT !.columns = OHLCV \ {"volume"}] }

\* a series Stage-2 Breakout signals on, one Monthly Trend signals on, and
\* one without its volume column, on which calculate_indicators raises
StoredFiles ==
    { File(OnlyStage2), File(OnlyMonthly),
      File([BaseFrame(18000, 300) EXCEPT !.columns = OHLCV \ {"volume"}]) }

\* the store holds a series for each symbol; the caller holds a frame of
\* its own
InitEvaluate ==
    /\ files \in [Symbols -> StoredFiles]
    /\ op = "none" /\ pc = "idle" /\ symbols = <<>> /\ i = 1
    /\ all_signals = <<>> /\ scanned = 0 /\ signals = <<>>
    /\ calls = <<>> /\ log = <<>> /\ result = None
    /\ analyzer = None /\ ncalls = 0
    /\ arg \in CallerFrames

\* either a scan (scan_all, scan_symbol or one strategy) or the construction
\* of an analyzer followed by its methods
NextEvaluate ==
    \/ Next
    \/ NextSymbol
    \/ NextAnalyzer

SpecEvaluate == InitEvaluate /\ [][NextEvaluate]_vars

\* ------------------------------------------------------------------------
\* Stored series, bar by bar
\* ------------------------------------------------------------------------
\* A series is a function from 1 .. n to bars; prices are in 1/1024 of a
\* currency unit.  FrameOf gives the stored frame of a series: each field is
\* the window of the bars that the field stands for.

RECURSIVE SumRange(_, _, _)
SumRange(f, a, b) ==
    IF a > b THEN 0
    ELSE IF a = b THEN f[a]
    ELSE LET m == (a + b) \div 2
         IN  SumRange(f, a, m) + SumRange(f, m + 1, b)

RECURSIVE MaxRange(_, _, _)
MaxRange(f, a, b) ==
    IF a = b THEN f[a]
    ELSE LET m == (a + b) \div 2
             l == MaxRange(f, a, m)
             r == MaxRange(f, m + 1, b)
         IN  IF l >= r THEN l ELSE r

RECURSIVE MinRange(_, _, _)
MinRange(f, a, b) ==
    IF a = b THEN f[a]
    ELSE LET m == (a + b) \div 2
             l == MinRange(f, a, m)
             r == MinRange(f, m + 1, b)
         IN  IF l <= r THEN l ELSE r

\* the sum of the values vs[a] .. vs[b]
RECURSIVE AddRange(_, _, _)
AddRange(vs, a, b) ==
    IF a > b THEN Num(0)
    ELSE IF a = b THEN vs[a]
    ELSE Add(AddRange(vs, a, b - 1), vs[b])

\* the first bar of a window of w bars ending at bar t
From(t, w) == IF t - w + 1 < 1 THEN 1 ELSE t - w + 1

\* delta.where(delta > 0, 0) and -delta.where(delta < 0, 0): the first
\* delta is NaN and becomes 0
GainsOf(s) ==
    [t \in DOMAIN s |->
        IF t > 1 /\ s[t].close > s[t - 1].close
        THEN s[t].close - s[t - 1].close ELSE 0]

LossesOf(s) ==
    [t \in DOMAIN s |->
        IF t > 1 /\ s[t].close < s[t - 1].close
        THEN s[t - 1].close - s[t].close ELSE 0]

\* tr: the row maximum skips the NaN of the first bar
TrueRangeOf(s) ==
    [t \in DOMAIN s |->
        IF t = 1 THEN s[t].high - s[t].low
        ELSE LET hl == s[t].high - s[t].low
                 hc == Abs(s[t].high - s[t - 1].close)
                 lc == Abs(s[t].low - s[t - 1].close)
                 m  == IF hl >= hc THEN hl ELSE hc
             IN  IF m >= lc THEN m ELSE lc]

\* plus_dm and minus_dm after the four where() calls (lines 79-84)
PlusDmOf(s) ==
    [t \in DOMAIN s |->
        LET up   == IF t > 1 THEN s[t].high - s[t - 1].high ELSE 0
            down == IF t > 1 THEN Abs(s[t].low - s[t - 1].low) ELSE 0
            p    == IF up > 0 THEN up ELSE 0
        IN  IF p > down THEN p ELSE 0]

MinusDmOf(s) ==
    [t \in DOMAIN s |->
        LET down == IF t > 1 THEN Abs(s[t].low - s[t - 1].low) ELSE 0
        IN  IF down > PlusDmOf(s)[t] THEN down ELSE 0]

\* dx on bar t >= 14 (lines 86-89)
DxAt(s, t) ==
    LET atr      == SumRange(TrueRangeOf(s), t - 13, t)
        plus_di  == Mul(Num(100),
                        Div(Num(SumRange(PlusDmOf(s), t - 13, t)), Num(atr)))
        minus_di == Mul(Num(100),
                        Div(Num(SumRange(MinusDmOf(s), t - 13, t)), Num(atr)))
    IN  Mul(Div(AbsV(Sub(plus_di, minus_di)),
                Add(Add(plus_di, minus_di), Rat(1, 10000))), Num(100))

\* Vol_Ratio on bar t >= 20
VolRatioAt(s, t) ==
    LET vol == [u \in DOMAIN s |-> s[u].volume]
    IN  Div(Num(vol[t]), Div(Num(SumRange(vol, t - 19, t)), Num(20)))

FrameOf(s) ==
    LET n      == Len(s)
        close  == [t \in DOMAIN s |-> s[t].close]
        vol    == [t \in DOMAIN s |-> s[t].volume]
        first  == IF n - 19 < 20 THEN 20 ELSE n - 19
        ratios == [t \in first..(n - 1) |-> VolRatioAt(s, t)]
        \* the NaN ratios (no volume in 20 bars) are skipped by the mean
        ratio  == AddRange([t \in first..(n - 1) |->
                               IF ratios[t].nan THEN Num(0) ELSE ratios[t]],
                           first, n - 1)
        dxs    == [t \in (n - 13)..n |-> DxAt(s, t)]
        dx     == IF n < 27 THEN NaN ELSE AddRange(dxs, n - 13, n)
    IN  [columns   |-> OHLCV,
         len       |-> n,
         close     |-> close[n],
         sum50     |-> SumRange(close, From(n, 50), n),
         sum150    |-> SumRange(close, From(n, 150), n),
         sum200    |-> SumRange(close, From(n, 200), n),
         sum200_63 |-> IF n > 62
                       THEN SumRange(close, From(n - 62, 200), n - 62) ELSE 0,
         max252    |-> MaxRange(close, From(n, 252), n),
         close_63  |-> IF n > 63 THEN close[n - 63] ELSE close[1],
         close_126 |-> IF n > 126 THEN close[n - 126] ELSE close[1],
         max20     |-> MaxRange(close, From(n, 20), n),
         min20     |-> MinRange(close, From(n, 20), n),
         sum20     |-> SumRange(close, From(n, 20), n),
         volume    |-> vol[n],
         volume20  |-> SumRange(vol, From(n, 20), n),
         ratioSum  |-> ratio.n,
         ratioDen  |-> ratio.d,
         ratioCnt  |-> Cardinality({t \in first..(n - 1) : ~ratios[t].nan}),
         gain14    |-> SumRange(GainsOf(s), From(n, 14), n),
         loss14    |-> SumRange(LossesOf(s), From(n, 14), n),
         dxSum     |-> IF dx.nan THEN 0 ELSE dx.n,
         dxDen     |-> IF dx.nan THEN 1 ELSE dx.d,
         dxNaN     |-> dx.nan]

\* ------------------------------------------------------------------------
\* The scenario series
\* ------------------------------------------------------------------------

Bar(price, volume) ==
    [open |-> price, high |-> price, low |-> price, close |-> price,
     volume |-> volume]

\* the close of bar t of a series rising from 100 to 200 over len bars
\* (never falling): in a line, slowly at first, or slowly at the end
RisingClose(shape, len, t) ==
    LET span == 100 * 1024
    IN  CASE shape = "line" ->
                 span + ((t - 1) * span) \div (len - 1)
          [] shape = "late" ->
                 span + ((((t - 1) * (t - 1)) \div (len - 1)) * span)
                            \div (len - 1)
          [] shape = "early" ->
                 2 * span - ((((len - t) * (len - t)) \div (len - 1)) * span)
                                \div (len - 1)

\* a flat series of identical bars, or a rising series whose volume is
\* `multiple` times the earlier level on the last `spike` bars
SeriesOf(sc) ==
    IF sc.kind = "flat"
    THEN [t \in 1..sc.len |-> Bar(sc.price * 1024, sc.volume)]
    ELSE [t \in 1..sc.len |->
             Bar(RisingClose(sc.shape, sc.len, t),
                 IF t > sc.len - sc.spike THEN sc.multiple * sc.volume
                 ELSE sc.volume)]

FlatScenarios ==
    {[kind |-> "flat", len |-> len, price |-> 100, volume |-> v] :
        len \in {200, 252, 300}, v \in {0, 1000, 1000000}}

RisingScenarios ==
    {[kind |-> "rising", len |-> len, shape |-> shape, volume |-> 1000000,
      multiple |-> m, spike |-> k] :
        len \in {252, 300}, shape \in {"line", "late", "early"},
        m \in {1, 2, 3, 4, 7}, k \in {1, 5}}

Scenarios == FlatScenarios \cup RisingScenarios

\* Scenario A: 300 identical bars at 100 with a volume of 1,000,000
ScenarioA ==
    [kind |-> "flat", len |-> 300, price |-> 100, volume |-> 1000000]

\* Scenario B: 300 bars rising from 100 to 200, the volume 3 times the
\* earlier level on the last 5 bars
ScenarioB(shape) ==
    [kind |-> "rising", len |-> 300, shape |-> shape, volume |-> 1000000,
     multiple |-> 3, spike |-> 5]

\* the stored file of a scenario series, and the frame a TechnicalAnalyzer
\* is given for it (flat series only: the EWM columns of the rising ones are
\* not followed)
InitScenario ==
    /\ \E sc \in Scenarios :
          /\ files = [sym \in {SymA} |->
                         [exists |-> TRUE, corrupt |-> FALSE,
                          df |-> FrameOf(SeriesOf(sc)), scenario |-> sc]]
          /\ arg = IF sc.kind = "flat"
                   THEN FlatTA(sc.len, sc.price, sc.volume) ELSE None
    /\ op = "none" /\ pc = "idle" /\ symbols = <<>> /\ i = 1
    /\ all_signals = <<>> /\ scanned = 0 /\ signals = <<>>
    /\ calls = <<>> /\ log = <<>> /\ result = None
    /\ analyzer = None /\ ncalls = 0

NextScenario ==
    \/ CallScanSymbol
    \/ CallStage2Breakout
    \/ CallCanslim
    \/ CallMonthlyTrend
    \/ Construct
    \/ AnalyzeRsi
    \/ AnalyzeMacd
    \/ AnalyzeMovingAverages
    \/ AnalyzeBollingerBands
    \/ AnalyzeStochastic
    \/ AnalyzeAdx
    \/ AnalyzeVolume
    \/ GetFullAnalysis

SpecScenario == InitScenario /\ [][NextScenario]_vars

\* ------------------------------------------------------------------------
\* TechnicalAnalyzer.get_support_resistance
\* ------------------------------------------------------------------------

\* DataFrame.tail(n), n >= 0: the last n rows, all of them when there are
\* fewer
tail(xs, n) == SubSeq(xs, Len(xs) - Min(n, Len(xs)) + 1, Len(xs))

\* sorted(set(...)): the distinct values in ascending order
RECURSIVE sorted_set(_)
sorted_set(S) ==
    IF S = {} THEN <<>>
    ELSE LET m == CHOOSE x \in S : \A y \in S : ~LT(y, x)
         IN  <<m>> \o sorted_set(S \ {m})

\* the slices [:3] and [-3:]
first3(xs) == SubSeq(xs, 1, Min(3, Len(xs)))

last3(xs) == SubSeq(xs, Len(xs) - Min(3, Len(xs)) + 1, Len(xs))

\* a variant of get_support_resistance: the three lowest supports
get_support_resistance_lowest(self, lookback) ==
    LET low  == tail(self.low, lookback)
        high == tail(self.high, lookback)
        inner == 3 .. (Len(low) - 2)
        supports ==
            {Round(low[j], 2) :
                j \in {k \in inner :
                          /\ LT(low[k], low[k - 1]) /\ LT(low[k], low[k - 2])
                          /\ LT(low[k], low[k + 1]) /\ LT(low[k], low[k + 2])}}
        resistances ==
            {Round(high[j], 2) :
                j \in {k \in inner :
                          /\ GT(high[k], high[k - 1]) /\ GT(high[k], high[k - 2])
                          /\ GT(high[k], high[k + 1]) /\ GT(high[k], high[k + 2])}}
    IN  [support    |-> first3(sorted_set(supports)),
         resistance |-> first3(sorted_set(resistances))]

\* get_support_resistance on the low and high columns of self.df; the loop
\* index i of range(2, len(recent) - 2) is k - 1 here
get_support_resistance(self, lookback) ==
    LET low  == tail(self.low, lookback)
        high == tail(self.high, lookback)
        inner == 3 .. (Len(low) - 2)
        supports ==
            {Round(low[j], 2) :
                j \in {k \in inner :
                          /\ LT(low[k], low[k - 1]) /\ LT(low[k], low[k - 2])
                          /\ LT(low[k], low[k + 1]) /\ LT(low[k], low[k + 2])}}
        resistances ==
            {Round(high[j], 2) :
                j \in {k \in inner :
                          /\ GT(high[k], high[k - 1]) /\ GT(high[k], high[k - 2])
                          /\ GT(high[k], high[k + 1]) /\ GT(high[k], high[k + 2])}}
    IN  [support    |-> last3(sorted_set(supports)),
         resistance |-> first3(sorted_set(resistances))]

\* --- series closing at 1000 on every bar, given by their lows and highs
\* (integers over `scale`); the frame carries the two columns next to what
\* the indicator columns are computed from
LevelTA(lows, highs, scale) ==
    LET n    == Len(lows)
        f    == FlatTA(n, 1000, 20)
        from == IF n > 14 THEN n - 13 ELSE 1
        full == scale = 1 /\ n >= 14
        ups   == [t \in 1..n |-> IF t > 1 /\ highs[t] > highs[t - 1]
                                 THEN highs[t] - highs[t - 1] ELSE 0]
        downs == [t \in 1..n |-> IF t > 1 /\ lows[t] < lows[t - 1]
                                 THEN lows[t] - lows[t - 1] ELSE 0]
        range == [t \in 1..n |-> highs[t] - lows[t]]
        g == [f EXCEPT
                !.low_14  = IF full THEN MinRange(lows, from, n) ELSE 0,
                !.high_14 = IF full THEN MaxRange(highs, from, n) ELSE 0,
                !.tr14       = IF full THEN SumRange(range, from, n) ELSE 0,
                !.plus_dm14  = IF full THEN SumRange(ups, from, n) ELSE 0,
                !.minus_dm14 = IF full THEN SumRange(downs, from, n) ELSE 0]
    IN  [k \in DOMAIN g \cup {"low", "high"} |->
            IF k = "low" THEN [t \in 1..n |-> Rat(lows[t], scale)]
            ELSE IF k = "high" THEN [t \in 1..n |-> Rat(highs[t], scale)]
            ELSE g[k]]

\* the local extrema a series can hold
MaxPivots == 4

\* 2 + 3 * MaxPivots bars: every third bar may be a pivot, the bars between
\* are at the level `rest`
PivotSeries(rest, v) ==
    [t \in 1..(2 + 3 * MaxPivots) |-> IF t % 3 = 0 THEN v[t \div 3] ELSE rest]

\* lows of 990 with pivots at 950 .. 980 under highs of 1010, and highs of
\* 1010 with pivots at 1020 .. 1050 over lows of 990
PivotFrames ==
    {LevelTA(PivotSeries(990, v), PivotSeries(1010, [k \in 1..MaxPivots |-> 1010]), 1) :
        v \in [1..MaxPivots -> {990, 950, 960, 970, 980}]}
    \cup
    {LevelTA(PivotSeries(990, [k \in 1..MaxPivots |-> 990]), PivotSeries(1010, v), 1) :
        v \in [1..MaxPivots -> {1010, 1020, 1030, 1040, 1050}]}

\* every series of 5 or 8 bars with lows of 999.001, 999.004 and 999.010 (the
\* first two are 999.00 to two decimals) and highs as far above 1000 as the
\* lows are below
MirrorFrames ==
    {LevelTA(lows, [t \in DOMAIN lows |-> 2000000 - lows[t]], 1000) :
        lows \in UNION {[1..n -> {999001, 999004, 999010}] : n \in {5, 8}}}

LevelFrames == PivotFrames \cup MirrorFrames

\* the lookback arguments: none, too few for a candidate, one candidate,
\* a part of the series, and the default
Lookbacks == {0, 4, 5, 8, 20}

InitLevels ==
    /\ files = <<>>
    /\ op = "none" /\ pc = "idle" /\ symbols = <<>> /\ i = 1
    /\ all_signals = <<>> /\ scanned = 0 /\ signals = <<>>
    /\ calls = <<>> /\ log = <<>> /\ result = None
    /\ analyzer = None /\ ncalls = 0
    /\ arg \in LevelFrames

\* levels = analyzer.get_support_resistance(lookback); the low and high
\* columns of self.df are those of the df it was copied from, and calls
\* keeps the argument
GetSupportResistance ==
    /\ pc = "ready"
    /\ \E lookback \in Lookbacks :
          /\ result' = get_support_resistance(
                           [low |-> arg.low, high |-> arg.high], lookback)
          /\ calls' = <<lookback>>
    /\ op' = "get_support_resistance"
    /\ ncalls' = 1
    /\ UNCHANGED <<arg, analyzer, files, pc, symbols, i, all_signals, scanned,
                   signals, log>>

NextLevels ==
    \/ Construct
    \/ GetSupportResistance

SpecLevels == InitLevels /\ [][NextLevels]_vars

\* ------------------------------------------------------------------------
\* TechnicalAnalyzer._calculate_indicators: the OBV column
\* ------------------------------------------------------------------------

\* a variant of obv_step: an unchanged close counts as a rise (`>=` in place
\* of `>`)
obv_step_unchanged_is_up(last, close, prev_close, volume) ==
    IF close >= prev_close THEN last + volume
    ELSE last - volume

\* the body of the loop (lines 129-134): the value appended after obv[-1]
obv_step(last, close, prev_close, volume) ==
    IF close > prev_close THEN last + volume
    ELSE IF close < prev_close THEN last - volume
    ELSE last

\* `for i in range(1, len(close))` from bar t on (bar 1 is the first bar
\* here, so the loop starts at bar 2), obv being the list built so far
RECURSIVE obv_loop(_, _, _, _)
obv_loop(close, volume, obv, t) ==
    IF t > Len(close) THEN obv
    ELSE obv_loop(close, volume,
                  Append(obv, obv_step(obv[Len(obv)], close[t], close[t - 1],
                                       volume[t])),
                  t + 1)

\* obv = [0], then the loop; the list becomes the column self.df["obv"]
calculate_obv(close, volume) == obv_loop(close, volume, <<0>>, 2)

\* longest series whose OBV column is followed bar by bar
MaxObvBars == 4

\* a close one step under, on or over 100 with no volume, a small or a
\* large one
ObvBars == [close : {99, 100, 101}, volume : {0, 10, 25}]

\* the close and volume columns of every series of 1 .. MaxObvBars such bars
\* (the constructor does not get past an empty frame)
ObvFrames ==
    { [columns |-> OHLCV,
       close   |-> [t \in DOMAIN bars |-> bars[t].close],
       volume  |-> [t \in DOMAIN bars |-> bars[t].volume]] :
      bars \in ListsUpTo(ObvBars, MaxObvBars) \ {<<>>} }

InitObv ==
    /\ files = <<>>
    /\ op = "none" /\ pc = "idle" /\ symbols = <<>> /\ i = 1
    /\ all_signals = <<>> /\ scanned = 0 /\ signals = <<>>
    /\ calls = <<>> /\ log = <<>> /\ result = None
    /\ analyzer = None /\ ncalls = 0
    /\ arg \in ObvFrames

\* lines 126-135 run on the copy of the frame; result is the column obv
CalculateObv ==
    /\ pc = "idle"
    /\ op' = "obv" /\ pc' = "ready"
    /\ result' = calculate_obv(arg.close, arg.volume)
    /\ UNCHANGED <<arg, analyzer, ncalls, files, symbols, i, all_signals,
                   scanned, signals, calls, log>>

NextObv == CalculateObv

SpecObv == InitObv /\ [][NextObv]_vars

\* ------------------------------------------------------------------------
\* Properties of the batch scan (checked under Spec)
\* ------------------------------------------------------------------------

ScanAllDone == op = "scan_all" /\ pc = "done"

\* the per-symbol scans of the stored files
Scans == [sym \in Symbols |-> scan_symbol(files, sym)]

\* the signals of the per-symbol scans of a list, in the order of the list
\* (a scan that raised gives none)
RECURSIVE Collected(_, _)
Collected(scans, l) ==
    IF l = <<>> THEN <<>>
    ELSE LET r == scans[l[Len(l)]]
         IN  Collected(scans, SubSeq(l, 1, Len(l) - 1))
                 \o (IF r.raised THEN <<>> ELSE r.signals)

Count(seq, x) == Cardinality({k \in DOMAIN seq : seq[k] = x})

IsPermutation(a, b) ==
    /\ Len(a) = Len(b)
    /\ \A k \in DOMAIN a : Count(a, a[k]) = Count(b, a[k])

\* HIGH = 0, MEDIUM = 1, LOW = 2
Rank(sig) ==
    IF sig.confidence = "HIGH" THEN 0
    ELSE IF sig.confidence = "MEDIUM" THEN 1 ELSE 2

Distinct(l) == \A j, k \in DOMAIN l : j # k => l[j] # l[k]

\* the symbols of a set in ascending order
Ascending(S) == SelectSeq(<<SymA, SymAB, SymB>>, LAMBDA sym : sym \in S)

\* C1: the signals list returned by scan_all is a permutation of the signals
\* of the per-symbol scans, and every adjacent pair (a, b) of it has
\* rank(a) < rank(b), or rank(a) = rank(b) and a.symbol <= b.symbol.
C1_SortedPermutation ==
    ScanAllDone =>
        /\ \A scans \in {Scans} :
              IsPermutation(result.signals, Collected(scans, symbols))
        /\ \A k \in 1..(Len(result.signals) - 1) :
              LET a == result.signals[k]
                  b == result.signals[k + 1]
              IN  \/ Rank(a) < Rank(b)
                  \/ Rank(a) = Rank(b) /\ ~StrLess(b.symbol, a.symbol)

\* a scan whose sort moved signals: two symbols, both ranks, and a returned
\* list that differs from the order of collection
C1_Witness ==
    /\ ScanAllDone
    /\ Len(result.signals) >= 4
    /\ \E scans \in {Scans} : result.signals # Collected(scans, symbols)
    /\ \E j, k \in DOMAIN result.signals :
          /\ result.signals[j].symbol # result.signals[k].symbol
          /\ Rank(result.signals[j]) # Rank(result.signals[k])

\* C2: an exception raised while scanning one symbol does not abort the
\* batch: the loop reaches the end of the list, every symbol that does not
\* fail is evaluated, a failing symbol adds no signal and is not counted in
\* total_scanned, and the returned signals are those of the scan of the list
\* with the failing symbols taken out.
C2_ExceptionIsolated ==
    ScanAllDone /\ symbols # <<>> =>
        \A scans \in {Scans} :
            LET others == SelectSeq(symbols, LAMBDA sym : ~scans[sym].raised)
            IN  /\ i = Len(symbols) + 1
                /\ result.total_scanned = Len(others)
                /\ result.signals = SortSignals(Collected(scans, others))
                /\ \A sig \in Range(result.signals) : ~scans[sig.symbol].raised
                /\ \A sym \in Range(others) :
                      \A c \in Range(scans[sym].calls) :
                          <<sym, c>> \in Range(calls)

\* a batch whose first symbol fails and whose later symbols give signals
C2_Witness ==
    /\ ScanAllDone
    /\ Len(symbols) >= 2
    /\ scan_symbol(files, symbols[1]).raised
    /\ result.total_scanned = Len(symbols) - 1
    /\ result.total_signals > 0

\* C3: for a list of distinct symbols, the returned signals are those the
\* ascending ordering of the same symbols gives: the list depends on the set
\* of symbols scanned and not on the order in which they are evaluated.
C3_OrderIndependent ==
    ScanAllDone /\ symbols # <<>> /\ Distinct(symbols) =>
        \A scans \in {Scans} :
            result.signals =
                SortSignals(Collected(scans, Ascending(Range(symbols))))

\* three distinct symbols scanned in another order than the ascending one,
\* two of them at least with signals, collected in another order
C3_Witness ==
    /\ ScanAllDone
    /\ Distinct(symbols) /\ Len(symbols) = 3
    /\ symbols # Ascending(Range(symbols))
    /\ Len(result.signals) >= 4
    /\ \E scans \in {Scans} :
          Collected(scans, symbols)
              # Collected(scans, Ascending(Range(symbols)))

\* C4: every result returned by scan_all, the one of an empty universe
\* included, carries a scan date, the count of symbols scanned, the count of
\* signals and the signal list, the count being the length of the list.
C4_ResultCarriesMetadata ==
    ScanAllDone =>
        /\ {"scan_date", "total_scanned", "total_signals", "signals"}
               \subseteq DOMAIN result
        /\ result.total_signals = Len(result.signals)

\* ------------------------------------------------------------------------
\* Properties of the single-symbol runs (checked under SpecSymbol)
\* ------------------------------------------------------------------------

\* the symbol of the run and its stored file
Symbol == symbols[1]

Stored == files[Symbol]

\* the stored frame (of a file that can be read)
Frame == Stored.df

HasSeries == Stored.exists /\ ~Stored.corrupt

AllStrategies == <<"stage2_breakout", "canslim", "monthly_trend">>

InsufficientLogged ==
    \E k \in DOMAIN log :
        /\ log[k].level = "WARNING" /\ log[k].symbol = Symbol
        /\ log[k].msg = "Insufficient data"

\* C5: scan_symbol on a symbol with no stored series, or with fewer than 200
\* bars, logs insufficient data and returns no signal without evaluating a
\* strategy; a series of 200 bars or more (with the OHLCV columns) is accepted
\* and handed to the three strategies.
C5_MinimumBars ==
    op = "scan_symbol" =>
        IF ~HasSeries \/ Frame.len < 200
        THEN result = <<>> /\ calls = <<>> /\ InsufficientLogged
        ELSE RequiredColumns \subseteq Frame.columns =>
                /\ ~InsufficientLogged
                /\ calls = [k \in 1..3 |-> <<Symbol, AllStrategies[k]>>]

\* a series of 199 bars, rejected
C5_Witness ==
    /\ op = "scan_symbol"
    /\ HasSeries /\ Frame.len = 199
    /\ result = <<>> /\ calls = <<>>

\* the signals with a strategy identifier in a scan_symbol result
Of(strategy) == SelectSeq(result, LAMBDA sig : sig.strategy = strategy)

\* C6: the result of scan_symbol holds, for each of the three strategies, one
\* signal when the strategy's rule conjunction holds (the signal the
\* strategy gives on its own) and none when it fails; so it has 0 to 3
\* signals, no two with the same strategy identifier, and what one strategy
\* gives does not change with the others.
C6_IndependentStrategies ==
    op = "scan_symbol" /\ pc = "done" /\ calls # <<>> =>
        LET df == StrategyInput(Symbol)
        IN  /\ Len(result) \in 0..3
            /\ \A j, k \in DOMAIN result :
                  j # k => result[j].strategy # result[k].strategy
            /\ \A k \in DOMAIN result : result[k].strategy \in Range(AllStrategies)
            /\ Of("stage2_breakout") =
                  IF stage2_breakout_rules(df)
                  THEN <<strategy_stage2_breakout(df, Symbol)>> ELSE <<>>
            /\ Of("canslim") =
                  IF canslim_rules(df)
                  THEN <<strategy_canslim(df, Symbol)>> ELSE <<>>
            /\ Of("monthly_trend") =
                  IF monthly_trend_rules(df)
                  THEN <<strategy_monthly_trend(df, Symbol)>> ELSE <<>>

\* the first strategy fails and the two after it fire
C6_Witness ==
    /\ op = "scan_symbol" /\ pc = "done"
    /\ Len(result) = 2
    /\ result[1].strategy = "canslim"
    /\ result[2].strategy = "monthly_trend"

\* --- the gates, stated on the stored windows (f is a stored frame; prices
\* --- share one unit, so the quotients below are unit-free)

\* Stage 2: close above the 30- and 40-week (150- and 200-bar) means, the
\* 30-week above the 40-week, close above the 50-bar mean, that one above
\* the 200-bar mean
Stage2Classified(f) ==
    /\ f.len >= 200
    /\ 150 * f.close > f.sum150 /\ 200 * f.close > f.sum200
    /\ 4 * f.sum150 > 3 * f.sum200
    /\ 50 * f.close > f.sum50 /\ 4 * f.sum50 > f.sum200

\* volume / 20-bar mean volume > num / den
VolRatioAbove(f, num, den) ==
    f.len >= 20 /\ f.volume20 > 0 /\ 20 * f.volume * den > num * f.volume20

\* close is less than p percent below the 52-week high
WithinPctOfHigh(f, p) ==
    f.len >= 252 /\ 100 * f.close > (100 - p) * f.max252

\* ADX > k
ADXAbove(f, k) == f.len >= 27 /\ ~f.dxNaN /\ f.dxSum > 1400 * k

\* RSI < k (k < 100): RSI = 100 * gain / (gain + loss)
RSIBelow(f, k) ==
    /\ f.len >= 14 /\ f.gain14 + f.loss14 > 0
    /\ 100 * f.gain14 < k * (f.gain14 + f.loss14)

\* C7: strategy_stage2_breakout emits a signal if and only if the stage is
\* Stage 2, volume / 20-bar mean volume > 2.0, close is less than 10% below
\* the 52-week high, ADX > 25 and RSI < 70, a metric exactly on its threshold
\* (close exactly 10% below the high) not passing.
C7_Stage2IffStrictGates ==
    op = "strategy_stage2_breakout" =>
        (result # None <=>
            /\ Stage2Classified(Frame)
            /\ VolRatioAbove(Frame, 2, 1)
            /\ WithinPctOfHigh(Frame, 10)
            /\ ADXAbove(Frame, 25)
            /\ RSIBelow(Frame, 70))

\* mean of the volume ratio over the last 20 bars > 1.2
VolumeTrend(f) ==
    /\ f.len >= 20 /\ f.volume20 > 0
    /\ 5 * (f.ratioSum * f.volume20 + 2000 * f.volume)
           > 600 * f.volume20 * (f.ratioCnt + 1)

\* (20-bar max - 20-bar min) / 20-bar mean of close < 0.08
TightRange(f) == 2000 * (f.max20 - f.min20) < 8 * f.sum20

\* close > 0.98 x the 20-bar high
Breakout(f) == 100 * f.close > 98 * f.max20

\* C8: strategy_canslim emits a signal if and only if percent-from-high
\* > -5, the mean volume ratio of the last 20 bars > 1.2, the 63-bar return
\* > 15%, (the 20-bar range over the mean close < 0.08 or close > 0.98 x the
\* 20-bar high) and RSI < 65; either disjunct alone suffices.
C8_CanslimIffGates ==
    op = "strategy_canslim" =>
        (result # None <=>
            /\ WithinPctOfHigh(Frame, 5)
            /\ VolumeTrend(Frame)
            /\ Frame.len > 63 /\ 100 * Frame.close > 115 * Frame.close_63
            /\ (TightRange(Frame) \/ Breakout(Frame))
            /\ RSIBelow(Frame, 65))

\* a signal on a breakout whose range is not tight
C8_Witness ==
    /\ op = "strategy_canslim" /\ result # None
    /\ ~TightRange(Frame) /\ Breakout(Frame)

\* C9: strategy_monthly_trend emits a signal if and only if the series has
\* at least 252 bars, close > SMA50 > SMA200, the latest SMA200 is above the
\* SMA200 of 62 bars earlier (which exists from 262 bars on), the 126-bar
\* return > 25%, |close / SMA50 - 1| < 0.03 and ADX > 20.
C9_MonthlyIffGates ==
    op = "strategy_monthly_trend" =>
        (result # None <=>
            /\ Frame.len >= 252
            /\ 50 * Frame.close > Frame.sum50 /\ 4 * Frame.sum50 > Frame.sum200
            /\ Frame.len - 62 >= 200 /\ Frame.sum200 > Frame.sum200_63
            /\ 100 * Frame.close > 125 * Frame.close_126
            /\ 100 * Abs(50 * Frame.close - Frame.sum50) < 3 * Frame.sum50
            /\ ADXAbove(Frame, 20))

\* a signal on the shortest series that can give one
C9_Witness ==
    /\ op = "strategy_monthly_trend" /\ result # None
    /\ Frame.len = 262

\* n / d (n >= 0, d > 0) rounded to hundredths, half to even, in hundredths
Hundredths(n, d) ==
    LET g  == GCD(n, d)
        nn == n \div g
        dd == d \div g
        w  == nn \div dd
        r  == 100 * (nn % dd)
        q  == r \div dd
        up == \/ 2 * (r % dd) > dd
              \/ 2 * (r % dd) = dd /\ q % 2 = 1
    IN  Rat(100 * w + q + (IF up THEN 1 ELSE 0), 100)

\* the levels of a signal on the stored frame f, each rounded to 2 decimals
LevelsRounded(sig, f) ==
    /\ sig.signal = "BUY"
    /\ sig.entry = Hundredths(f.close, 1024)
    /\ sig.strategy = "stage2_breakout" =>
          /\ sig.stop = Hundredths(19 * f.sum150, 20 * 150 * 1024)
          /\ sig.target = Hundredths(140 * f.close, 100 * 1024)
          /\ sig.risk_reward =
                Hundredths(1200 * f.close, 3000 * f.close - 19 * f.sum150)
    /\ sig.strategy = "canslim" =>
          /\ sig.stop = Hundredths(93 * f.sum50, 100 * 50 * 1024)
          /\ sig.target = Hundredths(135 * f.close, 100 * 1024)
    /\ sig.strategy = "monthly_trend" =>
          /\ sig.stop = Hundredths(f.sum200, 200 * 1024)
          /\ sig.target = Hundredths(160 * f.close, 100 * 1024)

\* the levels of a signal on the stored frame f, as exact values
LevelsExact(sig, f) ==
    /\ sig.signal = "BUY"
    /\ sig.entry = Rat(f.close, 1024)
    /\ sig.strategy = "stage2_breakout" =>
          /\ sig.stop = Rat(19 * f.sum150, 20 * 150 * 1024)
          /\ sig.target = Rat(140 * f.close, 100 * 1024)
          /\ sig.risk_reward =
                Rat(1200 * f.close, 3000 * f.close - 19 * f.sum150)
    /\ sig.strategy = "canslim" =>
          /\ sig.stop = Rat(93 * f.sum50, 100 * 50 * 1024)
          /\ sig.target = Rat(135 * f.close, 100 * 1024)
    /\ sig.strategy = "monthly_trend" =>
          /\ sig.stop = Rat(f.sum200, 200 * 1024)
          /\ sig.target = Rat(160 * f.close, 100 * 1024)

StrategyOps ==
    {"strategy_stage2_breakout", "strategy_canslim", "strategy_monthly_trend"}

\* C10, as the code has it: every emitted signal has direction BUY and its
\* levels are fixed functions of the latest bar rounded to 2 decimals:
\* entry = round(close, 2); Stage-2 Breakout stop = round(0.95 x SMA30w, 2),
\* target = round(close x 1.40, 2), risk_reward = round(0.40 / ((close -
\* 0.95 x SMA30w) / close), 2); CANSLIM stop = round(0.93 x SMA50, 2), target
\* = round(close x 1.35, 2); Monthly Trend stop = round(SMA200, 2), target =
\* round(close x 1.60, 2).
C10_LevelsRounded ==
    /\ op \in StrategyOps /\ result # None => LevelsRounded(result, Frame)
    /\ op = "scan_symbol" /\ pc = "done" =>
          \A k \in DOMAIN result : LevelsRounded(result[k], Frame)

\* a CANSLIM signal whose entry is not the close itself
C10_Witness ==
    /\ op = "strategy_canslim" /\ result # None
    /\ result.entry # Rat(Frame.close, 1024)
    /\ result.entry = Hundredths(Frame.close, 1024)

\* C10, as stated: every emitted signal has direction BUY, entry equal to
\* the latest close, and stop, target and risk_reward equal to the stated
\* functions of the latest bar.
C10_LevelsExact ==
    /\ op \in StrategyOps /\ result # None => LevelsExact(result, Frame)
    /\ op = "scan_symbol" /\ pc = "done" =>
          \A k \in DOMAIN result : LevelsExact(result[k], Frame)

\* the confidence a signal must carry on the stored frame f
TierOf(sig, f) ==
    IF sig.strategy = "stage2_breakout"
    THEN (IF VolRatioAbove(f, 3, 1) THEN "HIGH" ELSE "MEDIUM")
    ELSE IF sig.strategy = "canslim"
    THEN (IF VolRatioAbove(f, 5, 2) THEN "HIGH" ELSE "MEDIUM")
    ELSE "MEDIUM"

\* C11: the confidence of every emitted signal is fixed by the strategy and
\* the volume ratio of the latest bar: Stage-2 Breakout is HIGH iff the ratio
\* > 3, CANSLIM is HIGH iff the ratio > 2.5, otherwise MEDIUM; Monthly Trend
\* is MEDIUM; no emitted signal has confidence LOW.
C11_ConfidenceTier ==
    /\ op \in StrategyOps /\ result # None =>
          /\ result.confidence = TierOf(result, Frame)
          /\ result.confidence # "LOW"
    /\ op = "scan_symbol" /\ pc = "done" =>
          \A k \in DOMAIN result :
              /\ result[k].confidence = TierOf(result[k], Frame)
              /\ result[k].confidence # "LOW"

\* a Stage-2 Breakout signal on a volume ratio of exactly 3, MEDIUM
C11_Witness ==
    /\ op = "strategy_stage2_breakout" /\ result # None
    /\ 20 * Frame.volume = 3 * Frame.volume20
    /\ result.confidence = "MEDIUM"

\* x > y between two last-row values; a missing value is not above anything
Above(x, y) == ~IsNaN(x) /\ ~IsNaN(y) /\ x.n * y.d > y.n * x.d

StageDone == op = "detect_stage" /\ pc = "done"

\* the seven conjuncts of Stage 2 on the row r
SevenConjuncts(r) ==
    /\ Above(r.close, r.SMA_30w) /\ Above(r.close, r.SMA_40w)
    /\ Above(r.SMA_30w, r.SMA_40w)
    /\ Above(r.close, r.SMA_50) /\ Above(r.close, r.SMA_150)
    /\ Above(r.close, r.SMA_200)
    /\ Above(r.SMA_50, r.SMA_200)

\* C12: detect_stage returns exactly one stage in {1,2,3,4}: 2 iff the seven
\* conjuncts hold; otherwise 1 iff close < SMA_30w and close > SMA_40w;
\* otherwise 4 iff close < SMA_30w and close < SMA_40w; otherwise 3, which
\* takes every equality case; is_stage_2 holds iff the stage is 2.
C12_StageTotal ==
    StageDone =>
        LET r  == arg
            s2 == SevenConjuncts(r)
            s1 == ~s2 /\ Above(r.SMA_30w, r.close) /\ Above(r.close, r.SMA_40w)
            s4 == ~s2 /\ ~s1 /\ Above(r.SMA_30w, r.close)
                             /\ Above(r.SMA_40w, r.close)
        IN  /\ result.stage \in {1, 2, 3, 4}
            /\ result.stage = 2 <=> s2
            /\ result.stage = 1 <=> s1
            /\ result.stage = 4 <=> s4
            /\ result.stage = 3 <=> ~s2 /\ ~s1 /\ ~s4
            /\ result.is_stage_2 <=> result.stage = 2
            /\ result = detect_stage(arg)

\* a close exactly on the 30-week average, below the 40-week one: Stage 3
C12_Witness ==
    /\ StageDone
    /\ arg.close = arg.SMA_30w /\ Above(arg.SMA_40w, arg.close)
    /\ result.stage = 3

\* ------------------------------------------------------------------------
\* Claims about TechnicalAnalyzer
\* ------------------------------------------------------------------------

AnalyzeOps ==
    {"analyze_rsi", "analyze_macd", "analyze_moving_averages",
     "analyze_bollinger_bands", "analyze_stochastic", "analyze_adx",
     "analyze_volume"}

\* get_full_analysis has returned a summary
SummaryDone == op = "get_full_analysis" /\ pc = "ready"

\* the indicators of the summary carrying one of the signals in S
With(S) == {k \in DOMAIN result.indicators : result.indicators[k].signal \in S}

Bullish == Cardinality(With({"BUY", "STRONG_BUY"}))

Bearish == Cardinality(With({"SELL", "STRONG_SELL"}))

\* C13: the overall signal is a function of the number of bullish and of
\* bearish indicators: STRONG_BUY iff bullish >= 5, BUY iff bullish = 4,
\* STRONG_SELL iff bearish >= 5, SELL iff bearish = 4, NEUTRAL otherwise;
\* the bullish and the bearish branch never both apply, and a buy-side
\* overall signal implies bullish > bearish.
C13_OverallSignal ==
    SummaryDone =>
        \A o \in {result.overall_signal}, b \in {Bullish}, s \in {Bearish} :
            /\ o = "STRONG_BUY" <=> b >= 5
            /\ o = "BUY" <=> b = 4
            /\ o = "STRONG_SELL" <=> s >= 5
            /\ o = "SELL" <=> s = 4
            /\ o = "NEUTRAL" <=> b < 4 /\ s < 4
            /\ ~(b >= 4 /\ s >= 4)
            /\ o \in {"BUY", "STRONG_BUY"} => b > s

\* four bullish against three bearish indicators: BUY
C13_Witness ==
    /\ SummaryDone /\ Bullish = 4 /\ Bearish = 3
    /\ result.overall_signal = "BUY"

\* C14: the summary holds exactly seven indicators; bullish_count,
\* bearish_count and neutral_count are non-negative and add up to 7, and
\* neutral_count is the number of indicators whose signal is NEUTRAL.
C14_CountsPartition ==
    SummaryDone =>
        /\ Cardinality(DOMAIN result.indicators) = 7
        /\ result.bullish_count >= 0 /\ result.bearish_count >= 0
        /\ result.neutral_count >= 0
        /\ result.bullish_count + result.bearish_count
               + result.neutral_count = 7
        /\ result.bullish_count = Bullish
        /\ result.bearish_count = Bearish
        /\ result.neutral_count = Cardinality(With({"NEUTRAL"}))

\* one strong signal among six neutral indicators
C14_Witness ==
    /\ SummaryDone
    /\ Cardinality(With({"STRONG_BUY", "STRONG_SELL"})) = 1
    /\ result.neutral_count = 6

\* the window each analysis is stated to require (RSI 14, MACD 12/26/9,
\* moving averages 50, Bollinger 20, Stochastic 14, ADX 14, volume 20),
\* MACD counted by its slow average
WindowOf(method) ==
    CASE method = "analyze_rsi"             -> 14
      [] method = "analyze_macd"            -> 26
      [] method = "analyze_moving_averages" -> 50
      [] method = "analyze_bollinger_bands" -> 20
      [] method = "analyze_stochastic"      -> 14
      [] method = "analyze_adx"             -> 14
      [] method = "analyze_volume"          -> 20

InsufficientData(r) ==
    /\ IsZero(r.value) /\ r.signal = "NEUTRAL"
    /\ r.description = "Insufficient data"

\* C15: whenever the series is shorter than the window an analysis requires,
\* analyze_<indicator> returns value 0, NEUTRAL, "Insufficient data"; in
\* particular the moving-average analysis below 50 bars.
C15_InsufficientBelowWindow ==
    op \in AnalyzeOps /\ pc = "ready" /\ analyzer.len < WindowOf(op) =>
        InsufficientData(result)

\* C16: constructing a TechnicalAnalyzer raises iff one of open, high, low,
\* close, volume is absent; with the five columns and at least one bar the
\* construction, every analyze_* and get_full_analysis return without
\* raising, however short the series and also when high = low.
C16_RaisesIffColumnMissing ==
    /\ op = "TechnicalAnalyzer" =>
          (pc = "raised" <=> ~(OHLCV \subseteq arg.columns))
    /\ pc = "raised" => op = "TechnicalAnalyzer"
    /\ op = "TechnicalAnalyzer" /\ pc = "ready" =>
          /\ arg.len >= 1
          /\ \A an \in {Analyses(analyzer)} :
                \A k \in DOMAIN an : an[k] # Raised
          /\ get_full_analysis(analyzer, SymA) # Raised

\* the full analysis of a single bar with high = low has returned
C16_Witness ==
    /\ SummaryDone /\ arg.len = 1 /\ arg.high_14 = arg.low_14
    /\ result.symbol = SymA

StoredScenario == files[SymA].scenario

IsScenarioB == StoredScenario \in {ScenarioB(sh) : sh \in {"line", "late", "early"}}

\* C18: on Scenario B (300 bars rising from 100 to 200, volume 3 times the
\* earlier level on the last 5 bars, close within 2% of its running high)
\* Stage-2 Breakout emits a signal with confidence HIGH whose target is the
\* entry times 1.40.
C18_ScenarioBFires ==
    op = "strategy_stage2_breakout" /\ pc = "done" /\ IsScenarioB =>
        /\ result # None
        /\ result.confidence = "HIGH"
        /\ result.target = Round(Mul(Price(Stored.df.close), Rat(140, 100)), 2)

\* C19: on Scenario A (300 identical bars, open = high = low = close = 100,
\* volume 1,000,000) the RSI is undefined, analyze_rsi returns NEUTRAL
\* without raising, and none of the three strategies emits a signal.
C19_ScenarioAQuiet ==
    StoredScenario = ScenarioA =>
        /\ pc # "raised"
        /\ IsNaN(calculate_indicators(files[SymA].df).RSI)
        /\ (analyzer # None => IsNaN(analyzer.rsi))
        /\ (op = "analyze_rsi" => result.signal = "NEUTRAL")
        /\ (op = "get_full_analysis" =>
                result.indicators.rsi.signal = "NEUTRAL")
        /\ (op \in StrategyOps => result = None)
        /\ (op = "scan_symbol" =>
                /\ result = <<>>
                /\ {calls[k][2] : k \in DOMAIN calls} = Range(AllStrategies))

\* scan_symbol has evaluated the three strategies on Scenario A and
\* returned no signal
C19_Witness ==
    /\ StoredScenario = ScenarioA
    /\ op = "scan_symbol" /\ pc = "done" /\ Len(calls) = 3 /\ result = <<>>

\* ------------------------------------------------------------------------
\* Independence of the three strategies
\* ------------------------------------------------------------------------

\* the gates of the strategy hold on the indicator frame df
GatesHold(strategy, df) ==
    CASE strategy = "stage2_breakout" -> stage2_breakout_rules(df)
      [] strategy = "canslim"         -> canslim_rules(df)
      [] strategy = "monthly_trend"   -> monthly_trend_rules(df)

\* the strategies that signalled the symbol in the returned scan
Signalled(sym) ==
    {result.signals[k].strategy :
        k \in {j \in DOMAIN result.signals : result.signals[j].symbol = sym}}

\* C20: none of the three strategies is equivalent to or implied by another:
\* each emits its signal on its own gates alone, so that for each strategy
\* there is an input on which it emits a signal while the other two emit
\* none.
C20_OwnGatesOnly ==
    ScanAllDone =>
        \A sym \in Range(symbols) :
            \A df \in {calculate_indicators(files[sym].df)} :
                Signalled(sym) =
                    {x \in Range(AllStrategies) : GatesHold(x, df)}

\* one scan in which each of the three strategies has signalled a symbol
\* that the other two have not
C20_Witness ==
    /\ ScanAllDone
    /\ \A x \in Range(AllStrategies) :
          \E sym \in Range(symbols) : Signalled(sym) = {x}

\* ------------------------------------------------------------------------
\* Claims about the thresholds of the analyses
\* ------------------------------------------------------------------------

\* a finite value against an integer
Under(r, k) == ~r.nan /\ r.d > 0 /\ r.n < k * r.d

Over(r, k) == ~r.nan /\ r.d > 0 /\ r.n > k * r.d

\* the analysis `method` has returned
Returned(method) == op = method /\ pc = "ready"

\* C22: analyze_rsi maps every defined RSI value r to exactly one signal:
\* r < 20 STRONG_BUY, else r < 30 BUY, else r > 80 STRONG_SELL, else r > 70
\* SELL, otherwise NEUTRAL; the bounds are strict, so 20 is BUY, 30 and 70
\* are NEUTRAL and 80 is SELL.
C22_RsiThresholds ==
    Returned("analyze_rsi") /\ ~IsNaN(analyzer.rsi) =>
        \A r \in {analyzer.rsi}, s \in {result.signal} :
            /\ s = "STRONG_BUY"  <=> Under(r, 20)
            /\ s = "BUY"         <=> ~Under(r, 20) /\ Under(r, 30)
            /\ s = "STRONG_SELL" <=> Over(r, 80)
            /\ s = "SELL"        <=> Over(r, 70) /\ ~Over(r, 80)
            /\ s = "NEUTRAL"     <=> ~Under(r, 30) /\ ~Over(r, 70)
            /\ r = Num(20) => s = "BUY"
            /\ r \in {Num(30), Num(70)} => s = "NEUTRAL"
            /\ r = Num(80) => s = "SELL"

\* an RSI of exactly 70 has been analysed as NEUTRAL
C22_Witness ==
    /\ Returned("analyze_rsi") /\ analyzer.rsi = Num(70)
    /\ result.signal = "NEUTRAL"

\* x > y and x = y on finite values
More(x, y) == ~x.nan /\ ~y.nan /\ x.d > 0 /\ y.d > 0 /\ x.n * y.d > y.n * x.d

Same(x, y) == ~x.nan /\ ~y.nan /\ x.d > 0 /\ y.d > 0 /\ x.n * y.d = y.n * x.d

\* the histogram one bar back as analyze_macd takes it
PrevHistogram ==
    IF analyzer.len > 1 THEN analyzer.macd_histogram_prev ELSE Num(0)

\* the histogram has just turned positive / negative
CrossedUp == Over(analyzer.macd_histogram, 0) /\ ~Over(PrevHistogram, 0)

CrossedDown ==
    ~CrossedUp /\ Under(analyzer.macd_histogram, 0) /\ ~Under(PrevHistogram, 0)

\* C23: analyze_macd returns STRONG_BUY iff the latest histogram is > 0 and
\* the previous one <= 0; otherwise STRONG_SELL iff the latest is < 0 and the
\* previous one >= 0; otherwise BUY iff MACD > signal line, SELL iff MACD <
\* signal line and NEUTRAL when they are equal; on a series of one bar the
\* previous histogram is taken as 0.
C23_MacdCrossover ==
    Returned("analyze_macd") =>
        \A s \in {result.signal}, m \in {analyzer.macd},
           g \in {analyzer.macd_signal} :
            /\ s = "STRONG_BUY"  <=> CrossedUp
            /\ s = "STRONG_SELL" <=> CrossedDown
            /\ s = "BUY"     <=> ~CrossedUp /\ ~CrossedDown /\ More(m, g)
            /\ s = "SELL"    <=> ~CrossedUp /\ ~CrossedDown /\ More(g, m)
            /\ s = "NEUTRAL" <=> ~CrossedUp /\ ~CrossedDown /\ Same(m, g)

\* a positive histogram after one of exactly 0: STRONG_BUY
C23_Witness ==
    /\ Returned("analyze_macd") /\ analyzer.len > 1
    /\ IsZero(analyzer.macd_histogram_prev)
    /\ Over(analyzer.macd_histogram, 0)
    /\ result.signal = "STRONG_BUY"

\* the votes analyze_moving_averages can count on the analyzer's last row:
\* EMA9 over EMA21, the close over SMA50 and, with an SMA200, SMA50 over it
MaVotes ==
    <<More(analyzer.ema_9, analyzer.ema_21),
      More(analyzer.close, analyzer.sma_50)>>
    \o (IF analyzer.len >= 200
        THEN <<More(analyzer.sma_50, analyzer.sma_200)>> ELSE <<>>)

Ups == Cardinality({k \in DOMAIN MaVotes : MaVotes[k]})

\* C24: analyze_moving_averages averages the available votes among EMA9 >
\* EMA21, close > SMA50 and SMA50 > SMA200 (the third only with an SMA200),
\* each +1 or -1, and returns BUY iff the mean is > 0.5, SELL iff it is
\* < -0.5, else NEUTRAL: BUY (SELL) only when every available vote is
\* bullish (bearish), NEUTRAL on any split vote.
C24_MovingAverageVotes ==
    Returned("analyze_moving_averages") /\ ~IsNaN(analyzer.sma_50) =>
        \A n \in {Len(MaVotes)}, u \in {Ups}, s \in {result.signal} :
            /\ n \in {2, 3}
            /\ n = 3 <=> ~IsNaN(analyzer.sma_200)
            /\ result.value = Round(Rat(u - (n - u), n), 2)
            /\ s = "BUY"     <=> 2 * (u - (n - u)) > n
            /\ s = "SELL"    <=> 2 * (u - (n - u)) < 0 - n
            /\ s = "BUY"     <=> u = n
            /\ s = "SELL"    <=> u = 0
            /\ s = "NEUTRAL" <=> 0 < u /\ u < n

\* two bullish votes against a bearish one: a mean of 0.33, NEUTRAL
C24_Witness ==
    /\ Returned("analyze_moving_averages") /\ ~IsNaN(analyzer.sma_200)
    /\ Ups = 2 /\ result.value = Rat(33, 100)
    /\ result.signal = "NEUTRAL"

\* C25: analyze_adx returns BUY iff ADX > 25 and +DI > -DI, SELL iff
\* ADX > 25 and -DI > +DI, and NEUTRAL in every other case: an ADX of at
\* most 25, or an ADX above 25 with +DI equal to -DI.
C25_AdxSignal ==
    Returned("analyze_adx") /\ ~IsNaN(analyzer.adx) =>
        \A s \in {result.signal}, p \in {analyzer.plus_di},
           m \in {analyzer.minus_di} :
            /\ s = "BUY"     <=> Over(analyzer.adx, 25) /\ More(p, m)
            /\ s = "SELL"    <=> Over(analyzer.adx, 25) /\ More(m, p)
            /\ s = "NEUTRAL" <=> ~Over(analyzer.adx, 25) \/ Same(p, m)

\* the last volume over its 20-bar mean, and the last close change
VolumeRatio == Div(Num(analyzer.volume), analyzer.volume_sma)

PriceUp == More(analyzer.close, analyzer.prev_close)

PriceDown == More(analyzer.prev_close, analyzer.close)

\* C26: analyze_volume returns STRONG_BUY iff ratio > 1.5 and the price is
\* up, STRONG_SELL iff ratio > 1.5 and the price is down, BUY iff
\* 1.2 < ratio <= 1.5 and the price is up, SELL iff 1.2 < ratio <= 1.5 and
\* the price is down, and NEUTRAL in every other case: a ratio of at most
\* 1.2, or an unchanged close.
C26_VolumeSignal ==
    Returned("analyze_volume") /\ ~IsNaN(analyzer.volume_sma) =>
        \A s \in {result.signal}, r \in {VolumeRatio} :
            LET high == More(r, Rat(15, 10))
                mid  == More(r, Rat(12, 10)) /\ ~high
            IN  /\ s = "STRONG_BUY"  <=> high /\ PriceUp
                /\ s = "STRONG_SELL" <=> high /\ PriceDown
                /\ s = "BUY"         <=> mid /\ PriceUp
                /\ s = "SELL"        <=> mid /\ PriceDown
                /\ s = "NEUTRAL"     <=> ~More(r, Rat(12, 10))
                                         \/ (~PriceUp /\ ~PriceDown)

\* ------------------------------------------------------------------------
\* Claims about the support and resistance levels
\* ------------------------------------------------------------------------

LevelsDone == op = "get_support_resistance" /\ pc = "ready"

\* the bars of the trailing lookback window, as indices of the series
Window ==
    LET n == Len(arg.low)
    IN  {t \in 1..n : t > n - calls[1]}

\* the bars of the window with 2 bars of the window before and after them
\* whose `column` value is beyond those four: below for the lows (side -1),
\* above for the highs (side 1)
Pivots(column, side) ==
    {t \in Window :
        /\ {t - 2, t - 1, t + 1, t + 2} \subseteq Window
        /\ \A u \in {t - 2, t - 1, t + 1, t + 2} :
              Cmp(arg[column][t], arg[column][u]) = side}

\* their values to two decimals
Levels(column, side) ==
    {Round(arg[column][t], 2) : t \in Pivots(column, side)}

StrictlyAscending(xs) ==
    \A k \in 1..(Len(xs) - 1) : More(xs[k + 1], xs[k])

UnderOneYear(symbol) ==
    LET f == files[symbol]
    IN  /\ f.exists /\ ~f.corrupt
        /\ RequiredColumns \subseteq f.df.columns
        /\ 200 <= f.df.len /\ f.df.len < 252

\* C28: a series of at least 200 but fewer than 252 bars is accepted by
\* load_ohlcv (no warning is logged), its 52-week high and its distance from
\* it are undefined on the last bar, each of the three strategies returns
\* nothing on it, and scan_symbol evaluates the three and returns no signal.
C28_NoSignalUnderOneYear ==
    \A symbol \in DOMAIN files :
        UnderOneYear(symbol) =>
            \A l \in {load_ohlcv(files, symbol)}, df \in {StrategyInput(symbol)} :
                /\ l.ret = files[symbol].df /\ l.log = <<>>
                /\ IsNaN(df.High_52w) /\ IsNaN(df.Pct_from_52w_high)
                /\ (pc = "done" /\ symbols = <<symbol>> =>
                       IF op = "scan_symbol"
                       THEN /\ result = <<>> /\ log = <<>>
                            /\ Len(calls) = 3
                       ELSE result = None)

\* scan_symbol has returned no signal on a series of 251 bars on which all
\* three strategies fire once the series is 263 bars long with the same
\* windows
C28_Witness ==
    /\ op = "scan_symbol" /\ pc = "done" /\ result = <<>>
    /\ UnderOneYear(SymA) /\ files[SymA].df.len = 251
    /\ Len(scan_symbol([files EXCEPT ![SymA].df.len = 263], SymA).signals) = 3

\* ------------------------------------------------------------------------
\* C29
\* ------------------------------------------------------------------------

\* entry, stop and target of a strategy as computed before rounding
\* (kimi_scanner.py lines 169-171, 216-218 and 261-263)
unrounded_levels(df, strategy) ==
    CASE strategy = "stage2_breakout" ->
             [entry  |-> df.close,
              stop   |-> Mul(df.SMA_30w, Rat(95, 100)),
              target |-> Mul(df.close, Rat(140, 100))]
      [] strategy = "canslim" ->
             [entry  |-> df.close,
              stop   |-> Mul(df.SMA_50, Rat(93, 100)),
              target |-> Mul(df.close, Rat(135, 100))]
      [] strategy = "monthly_trend" ->
             [entry  |-> df.close,
              stop   |-> df.SMA_200,
              target |-> Mul(df.close, Rat(160, 100))]

\* the signals the finished call has returned
Emitted ==
    IF pc # "done" THEN {}
    ELSE IF op = "scan_symbol" THEN Range(result)
    ELSE IF op \in {"strategy_stage2_breakout", "strategy_canslim",
                    "strategy_monthly_trend"} /\ result # None
    THEN {result}
    ELSE {}

\* C29: on a series of positive prices, every signal a strategy emits has
\* its unrounded stop strictly below its entry (the close) and its unrounded
\* target strictly above it, and the rounded levels it carries are those
\* values to two decimals; a Stage-2 Breakout signal never carries the
\* fallback risk_reward of 0.
C29_StopBelowEntryBelowTarget ==
    \A s \in Emitted :
        \A lv \in {unrounded_levels(StrategyInput(s.symbol), s.strategy)} :
            /\ WellFormed(files[s.symbol].df)
            /\ GT(lv.stop, Num(0))
            /\ LT(lv.stop, lv.entry) /\ LT(lv.entry, lv.target)
            /\ s.entry = Round(lv.entry, 2) /\ s.stop = Round(lv.stop, 2)
            /\ s.target = Round(lv.target, 2)
            /\ (s.strategy = "stage2_breakout" => GT(s.risk_reward, Num(0)))

\* Monthly Trend has signalled with the 200-day average 2/1024 under the
\* close: stop and entry differ before rounding and agree after it
C29_Witness ==
    /\ op = "strategy_monthly_trend" /\ pc = "done" /\ result # None
    /\ result.stop = result.entry
    /\ files[SymA].df.sum200 = 200 * (files[SymA].df.close - 2)

\* ------------------------------------------------------------------------
\* C30
\* ------------------------------------------------------------------------

ObvDone == op = "obv" /\ pc = "ready"

\* +1, -1 or 0 as the close of bar t is above, below or on that of bar t - 1
Direction(t) == Sgn(arg.close[t] - arg.close[t - 1])

\* the volumes of bars 2 .. t, each with its direction
SignedVolume == [t \in 2 .. Len(arg.close) |-> Direction(t) * arg.volume[t]]

\* C30: the OBV column has one value per bar; the first is 0 and each later
\* one is the one before plus the bar's volume when the close rose, minus it
\* when the close fell, and the one before when the close is unchanged; so
\* the value on a bar is the sum of the signed volumes of the bars after the
\* first up to it, and its magnitude is at most the sum of their volumes.
C30_ObvFold ==
    ObvDone =>
        /\ Len(result) = Len(arg.close)
        /\ result[1] = 0
        /\ \A t \in 2 .. Len(result) :
              /\ arg.close[t] > arg.close[t - 1]
                    => result[t] = result[t - 1] + arg.volume[t]
              /\ arg.close[t] < arg.close[t - 1]
                    => result[t] = result[t - 1] - arg.volume[t]
              /\ arg.close[t] = arg.close[t - 1]
                    => result[t] = result[t - 1]
              /\ result[t] = SumRange(SignedVolume, 2, t)
              /\ Abs(result[t]) <= SumRange(arg.volume, 2, t)

\* four bars: up on 25, unchanged on 10, down on 10 leave the column at
\* 0, 25, 25, 15
C30_Witness ==
    /\ ObvDone
    /\ arg.close = <<100, 101, 101, 100>>
    /\ arg.volume = <<10, 25, 10, 10>>
    /\ result = <<0, 25, 25, 15>>

\* ------------------------------------------------------------------------
\* C21
\* ------------------------------------------------------------------------

\* the store with the series of one symbol only
Alone(symbol) == [sym \in {symbol} |-> files[symbol]]

====
